---- MODULE Spec2Model ----
(***************************************************************************)
(* A model of the connectome dataflow engine:                              *)
(*   - the in-process locker (storage/locker.py, DictRegistry)             *)
(*   - the read/write transactions of MemoryCache (cache/memory.py)        *)
(*   - the two-pass graph evaluator (engine/graph.py) with the built-in    *)
(*     edges (engine/edges.py) and the multi-input switch (layers/merge.py)*)
(*   - the group-by edges (layers/goup.py)                                 *)
(*   - the shared-KV locker (storage/locker.py, RedisLocker) next to the   *)
(*     in-process one                                                      *)
(***************************************************************************)
EXTENDS Integers, Sequences, FiniteSets, TLC

VARIABLES
    \* ---- locker (DictRegistry) ----
    reading,     \* DictRegistry._reading : key -> count (0 when the key is absent)
    writing,     \* DictRegistry._writing : key -> flag  (0 when the key is absent)
    assertOK,    \* FALSE once an assert of the registry has failed
    lpc,         \* per thread: what it holds on the bare locker
    lkey,        \* per thread: the key it holds
    \* ---- MemoryCache transactions ----
    mcache,      \* MemoryCache._cache : the set of keys stored
    tpc,         \* per thread: position in the transaction protocol
    tkey,        \* per thread: key of the transaction
    titer,       \* per thread: the counter i of wait_for_true
    tpolls,      \* per thread: how often wait_for_true has called func(key)
    nwrites,     \* per key: how many times write_fn stored it
    badRead,     \* TRUE once read_fn ran on a key that is not stored
    \* ---- graph evaluation: what outlives a call ----
    storage,     \* per graph: the store of its CacheEdge, hash -> value
    fcalls,      \* per graph and node: how often the FunctionEdge's function ran
    ncalls,      \* calls made so far
    results,     \* every (graph, arguments, value, hash) a call returned
    \* ---- graph evaluation: one call ----
    cstate,      \* "idle", "running", "done", "failed"
    graph,       \* the compiled graph called
    args,        \* the bound arguments: input name -> value
    hashes,      \* EvictionCache of (hash, payload)
    values,      \* EvictionCache of values
    stack,       \* the driver's call stack: frames of evaluate / compute_hash
    result,      \* the value the call returned
    cerr,        \* the error the call raised
    store0,      \* storage at the start of the call
    hstarted,    \* nodes whose compute_hash generator was started
    vstarted,    \* nodes whose evaluate generator was started
    hlog,        \* node -> hash its compute_hash generator returned
    vlog,        \* node -> value its evaluate generator returned
    nget,        \* per cache (h, v) and node: how often the entry was read
    entry,       \* the entry point running: "call", "get_hash" or "get_value"
    hres,        \* the hash get_hash returned
    cfail,       \* <<op, node>> of the generator that raised
    act,         \* the generators started by this call, in order: <<op, node>>
    failures,    \* every (graph, arguments, entry point, error) a call raised
    \* ---- graph construction ----
    bshape,      \* the nodes and edges handed to Graph(inputs, output)
    bdecl,       \* the declared inputs, in the order given
    bstate,      \* "new", "built", "failed"
    bparams,     \* the parameters of the callable built
    \* ---- group-by edges ----
    gids,        \* the list of identifiers given to the edges
    gsub,        \* the wrapped subgraph: identifier -> value
    gmemo,       \* MappingEdge._mapping: <<>> for None, <<m>> once set
    gop,         \* the edge evaluated last: "new", "mapping", "group"
    garg,        \* the arguments of that evaluation
    gout,        \* its outcome: a value or the error raised
    ghmemo,      \* HashMappingEdge._mapping: <<>> for None, <<m>> once set
    gmask,       \* the mask _compute_mask returned for that evaluation
    gfirst,      \* per stateful edge: <<>>, or <<outcome of its first evaluation>>
    gn,          \* evaluations of the stateful edges made so far
    gcalls,      \* calls of self.graph.eval made so far
    \* ---- shared-KV locker (RedisLocker) and its clients ----
    lock,        \* the hash at _lock_key: field -> integer, absent fields missing
    rpc,         \* per client: what it holds on the shared-KV locker
    rkey,        \* per client: the key it holds there
    last         \* the call made last on both lockers, and what each returned

lockerVars == <<reading, writing, assertOK, lpc, lkey>>
txnVars == <<mcache, tpc, tkey, titer, tpolls, nwrites, badRead>>
evalVars == <<storage, fcalls, ncalls, results, cstate, graph, args, hashes, values,
              stack, result, cerr, store0, hstarted, vstarted, hlog, vlog, nget,
              entry, hres, cfail, act, failures>>
buildVars == <<bshape, bdecl, bstate, bparams>>
groupVars == <<gids, gsub, gmemo, gop, garg, gout, ghmemo, gmask, gfirst, gn, gcalls>>
sharedVars == <<lock, rpc, rkey, last>>
vars == <<reading, writing, assertOK, lpc, lkey,
          mcache, tpc, tkey, titer, tpolls, nwrites, badRead,
          storage, fcalls, ncalls, results, cstate, graph, args, hashes, values,
          stack, result, cerr, store0, hstarted, vstarted, hlog, vlog, nget,
          entry, hres, cfail, act, failures, bshape, bdecl, bstate, bparams,
          gids, gsub, gmemo, gop, garg, gout, ghmemo, gmask, gfirst, gn, gcalls,
          lock, rpc, rkey, last>>

\* ---------------------------------------------------------------- bounds
NThreads == 3
NKeys == 2
MaxIterations == 2
MaxCalls == 3
MaxInput == 2
MaxIds == 3
MaxEvaluations == 2

Threads == 1..NThreads
Keys == 1..NKeys

\* dictionaries with a changing key set
EmptyMap == [m \in {} |-> 0]
Put(f, k, v) == [m \in DOMAIN f \cup {k} |-> IF m = k THEN v ELSE f[m]]
Drop(f, k) == [m \in DOMAIN f \ {k} |-> f[m]]

GraphNames == {"plain", "cached", "arith", "switched", "keyed", "sliced", "projected"}

\* EvictionCache(counts, cache): the countdown and the entries held
EvictionCache(counts, cache) == [counts |-> counts, cache |-> cache]

\* no call has been made: empty stores, nothing on the stack
EvalIdle ==
    /\ storage = [g \in GraphNames |-> EmptyMap]
    /\ fcalls = [g \in GraphNames |-> EmptyMap]
    /\ ncalls = 0
    /\ results = {}
    /\ cstate = "idle"
    /\ graph = "plain"
    /\ args = EmptyMap
    /\ hashes = EvictionCache(EmptyMap, EmptyMap)
    /\ values = EvictionCache(EmptyMap, EmptyMap)
    /\ stack = <<>>
    /\ result = 0
    /\ cerr = ""
    /\ store0 = EmptyMap
    /\ hstarted = {}
    /\ vstarted = {}
    /\ hlog = EmptyMap
    /\ vlog = EmptyMap
    /\ nget = [h |-> EmptyMap, v |-> EmptyMap]
    /\ entry = "call"
    /\ hres = <<>>
    /\ cfail = <<>>
    /\ act = <<>>
    /\ failures = {}

\* no graph is under construction
BuildIdle ==
    /\ bshape = "plain"
    /\ bdecl = <<>>
    /\ bstate = "new"
    /\ bparams = <<>>

\* the identifiers of a dataset
Ids == 1..MaxIds
\* a call that returned v
Ok(v) == [t |-> "ok", val |-> v]

\* no group-by edge has been evaluated
GroupIdle ==
    /\ gids = <<>>
    /\ gsub = [i \in Ids |-> 0]
    /\ gmemo = <<>>
    /\ gop = "new"
    /\ garg = <<>>
    /\ gout = Ok(EmptyMap)
    /\ ghmemo = <<>>
    /\ gmask = <<>>
    /\ gfirst = [mapping |-> <<>>, hash_mapping |-> <<>>]
    /\ gn = 0
    /\ gcalls = 0

\* a call on the two lockers: the method, its key, whether the caller held a
\* matching reservation, and for each locker what it returned and whether it raised
LockerCall(op, key, stray, d, r) ==
    [op |-> op, key |-> key, stray |-> stray,
     dret |-> d.ret, derr |-> d.err, rret |-> r.ret, rerr |-> r.err]

\* RedisLocker.__init__ on an empty store: no field in the lock hash, no client
\* holds anything, no call was made
SharedIdle ==
    /\ lock = EmptyMap
    /\ rpc = [t \in Threads |-> "idle"]
    /\ rkey = [t \in Threads |-> 1]
    /\ last = [op |-> "none", key |-> 1, stray |-> FALSE,
               dret |-> FALSE, derr |-> FALSE, rret |-> FALSE, rerr |-> FALSE]

\* ------------------------------------------------- DictRegistry (locker.py)
\* Every method runs under `with self._lock`, so each is one atomic step.
\* A method's outcome: err (an assert failed), ret (the value returned),
\* and the two maps afterwards.

Outcome(err, ret, rd, wr) == [err |-> err, ret |-> ret, rd |-> rd, wr |-> wr]

\* _get_reading: value = self._reading.get(key, 0); assert value >= 0
get_reading_ok(rd, key) == rd[key] >= 0

\* _get_writing: value = self._writing.get(key, 0); assert 0 <= value <= 1
get_writing_ok(wr, key) == 0 <= wr[key] /\ wr[key] <= 1

\* _is_reading / _is_writing: bool(count)
is_reading(rd, key) == rd[key] # 0
is_writing(wr, key) == wr[key] # 0

\* mutant: a reader does not look at the write flag
start_reading_unchecked(rd, wr, key) ==
    Outcome(FALSE, TRUE, [rd EXCEPT ![key] = rd[key] + 1], wr)

start_reading(rd, wr, key) ==
    IF ~get_writing_ok(wr, key) THEN Outcome(TRUE, FALSE, rd, wr)
    ELSE IF is_writing(wr, key) THEN Outcome(FALSE, FALSE, rd, wr)
    ELSE IF ~get_reading_ok(rd, key) THEN Outcome(TRUE, FALSE, rd, wr)
    ELSE Outcome(FALSE, TRUE, [rd EXCEPT ![key] = rd[key] + 1], wr)

stop_reading(rd, wr, key) ==
    IF ~get_reading_ok(rd, key) THEN Outcome(TRUE, FALSE, rd, wr)
    ELSE IF rd[key] = 1 THEN Outcome(FALSE, TRUE, [rd EXCEPT ![key] = 0], wr)
    ELSE Outcome(FALSE, TRUE, [rd EXCEPT ![key] = rd[key] - 1], wr)

\* mutant: the writer does not look at the readers or at another writer
start_writing_unchecked(rd, wr, key) ==
    Outcome(FALSE, TRUE, rd, [wr EXCEPT ![key] = wr[key] + 1])

start_writing(rd, wr, key) ==
    IF ~get_reading_ok(rd, key) THEN Outcome(TRUE, FALSE, rd, wr)
    ELSE IF is_reading(rd, key) THEN Outcome(FALSE, FALSE, rd, wr)
    ELSE IF ~get_writing_ok(wr, key) THEN Outcome(TRUE, FALSE, rd, wr)
    ELSE IF is_writing(wr, key) THEN Outcome(FALSE, FALSE, rd, wr)
    ELSE IF wr[key] # 0 THEN Outcome(TRUE, FALSE, rd, wr)
    ELSE Outcome(FALSE, TRUE, rd, [wr EXCEPT ![key] = wr[key] + 1])

\* mutant: the write flag stays in the registry
stop_writing_kept(rd, wr, key) == Outcome(FALSE, TRUE, rd, wr)

stop_writing(rd, wr, key) ==
    IF ~get_writing_ok(wr, key) THEN Outcome(TRUE, FALSE, rd, wr)
    ELSE IF wr[key] # 1 THEN Outcome(TRUE, FALSE, rd, wr)
    ELSE Outcome(FALSE, TRUE, rd, [wr EXCEPT ![key] = 0])

\* The registry after a method ran: an assert that fails raises before any
\* assignment, so the maps are those of the outcome in both cases.
Apply(o) ==
    /\ reading' = o.rd
    /\ writing' = o.wr
    /\ assertOK' = (assertOK /\ ~o.err)

\* ThreadLocker.__init__: both maps empty
LockerInit ==
    /\ reading = [k \in Keys |-> 0]
    /\ writing = [k \in Keys |-> 0]
    /\ assertOK = TRUE

\* ------------------------------------------ threads on the bare locker
\* A thread calls start_reading / start_writing at any time, and the matching
\* stop_* only after its start_* returned True.

LStartReading(t, k) ==
    /\ lpc[t] = "idle"
    /\ LET o == start_reading(reading, writing, k) IN
        /\ Apply(o)
        /\ lpc' = [lpc EXCEPT ![t] = IF o.ret THEN "reading" ELSE "idle"]
        /\ lkey' = [lkey EXCEPT ![t] = IF o.ret THEN k ELSE lkey[t]]
    /\ UNCHANGED <<txnVars, evalVars, buildVars, groupVars, sharedVars>>

LStartWriting(t, k) ==
    /\ lpc[t] = "idle"
    /\ LET o == start_writing(reading, writing, k) IN
        /\ Apply(o)
        /\ lpc' = [lpc EXCEPT ![t] = IF o.ret THEN "writing" ELSE "idle"]
        /\ lkey' = [lkey EXCEPT ![t] = IF o.ret THEN k ELSE lkey[t]]
    /\ UNCHANGED <<txnVars, evalVars, buildVars, groupVars, sharedVars>>

LStopReading(t) ==
    /\ lpc[t] = "reading"
    /\ Apply(stop_reading(reading, writing, lkey[t]))
    /\ lpc' = [lpc EXCEPT ![t] = "idle"]
    /\ UNCHANGED <<lkey, txnVars, evalVars, buildVars, groupVars, sharedVars>>

LStopWriting(t) ==
    /\ lpc[t] = "writing"
    /\ Apply(stop_writing(reading, writing, lkey[t]))
    /\ lpc' = [lpc EXCEPT ![t] = "idle"]
    /\ UNCHANGED <<lkey, txnVars, evalVars, buildVars, groupVars, sharedVars>>

TxnIdle ==
    /\ mcache = {}
    /\ tpc = [t \in Threads |-> "idle"]
    /\ tkey = [t \in Threads |-> 1]
    /\ titer = [t \in Threads |-> 0]
    /\ tpolls = [t \in Threads |-> 0]
    /\ nwrites = [k \in Keys |-> 0]
    /\ badRead = FALSE

LockerThreadsInit ==
    /\ lpc = [t \in Threads |-> "idle"]
    /\ lkey = [t \in Threads |-> 1]

InitLocker == LockerInit /\ LockerThreadsInit /\ TxnIdle /\ EvalIdle /\ BuildIdle /\ GroupIdle /\ SharedIdle

NextLocker ==
    \E t \in Threads :
        \/ \E k \in Keys : LStartReading(t, k)
        \/ \E k \in Keys : LStartWriting(t, k)
        \/ LStopReading(t)
        \/ LStopWriting(t)

SpecLocker == InitLocker /\ [][NextLocker]_vars

\* ---------------------------------------------------- RedisLocker (locker.py)
\* The lock hash at _lock_key holds one field per key that is reserved: -1 for
\* a writer, n for n readers.  Every method is one command or one script, which
\* the store runs atomically.
RedisOutcome(err, ret, lk) == [err |-> err, ret |-> ret, lk |-> lk]

\* the commands of the store on the lock hash; hget gives <<>> for nil
hget(lk, key) == IF key \in DOMAIN lk THEN <<lk[key]>> ELSE <<>>
hdel(lk, key) == Drop(lk, key)
hincrby(lk, key, n) == Put(lk, key, (IF key \in DOMAIN lk THEN lk[key] ELSE 0) + n)
hsetnx(lk, key, v) ==
    IF key \in DOMAIN lk THEN RedisOutcome(FALSE, FALSE, lk)
    ELSE RedisOutcome(FALSE, TRUE, Put(lk, key, v))

\* start_writing: bool(hsetnx(_lock_key, key, -1))
Redis_start_writing(lk, key) == hsetnx(lk, key, -1)

\* stop_writing, the script: if hget == '-1' then hdel else error('')
Redis_stop_writing(lk, key) ==
    IF hget(lk, key) = <<-1>> THEN RedisOutcome(FALSE, TRUE, hdel(lk, key))
    ELSE RedisOutcome(TRUE, FALSE, lk)

\* mutant: a reader does not look at the writer's mark
Redis_start_reading_unchecked(lk, key) == RedisOutcome(FALSE, TRUE, hincrby(lk, key, 1))

\* start_reading, the script: if hget == '-1' then return 0 else hincrby 1; return 1
Redis_start_reading(lk, key) ==
    IF hget(lk, key) = <<-1>> THEN RedisOutcome(FALSE, FALSE, lk)
    ELSE RedisOutcome(FALSE, TRUE, hincrby(lk, key, 1))

\* mutant: the last reader or not, the field is deleted
Redis_stop_reading_delete(lk, key) ==
    IF hget(lk, key) = <<>> THEN RedisOutcome(TRUE, FALSE, lk)
    ELSE IF lk[key] < 1 THEN RedisOutcome(TRUE, FALSE, lk)
    ELSE RedisOutcome(FALSE, TRUE, hdel(lk, key))

\* stop_reading, the script: lock == '1' deletes the field; tonumber(lock) < 1
\* is an error, and so is the comparison itself when lock is nil; otherwise
\* hincrby -1
Redis_stop_reading(lk, key) ==
    IF hget(lk, key) = <<1>> THEN RedisOutcome(FALSE, TRUE, hdel(lk, key))
    ELSE IF hget(lk, key) = <<>> THEN RedisOutcome(TRUE, FALSE, lk)
    ELSE IF lk[key] < 1 THEN RedisOutcome(TRUE, FALSE, lk)
    ELSE RedisOutcome(FALSE, TRUE, hincrby(lk, key, -1))

\* ------------------------------------------- clients of the two lockers
\* A client makes the same call on a ThreadLocker and on a RedisLocker; on each
\* it holds what that locker granted, and it releases what both granted.
PairStartReading(t, k) ==
    /\ lpc[t] = "idle" /\ rpc[t] = "idle"
    /\ LET d == start_reading(reading, writing, k)
           r == Redis_start_reading(lock, k)
       IN
        /\ Apply(d)
        /\ lock' = r.lk
        /\ lpc' = [lpc EXCEPT ![t] = IF d.ret THEN "reading" ELSE "idle"]
        /\ lkey' = [lkey EXCEPT ![t] = IF d.ret THEN k ELSE lkey[t]]
        /\ rpc' = [rpc EXCEPT ![t] = IF r.ret THEN "reading" ELSE "idle"]
        /\ rkey' = [rkey EXCEPT ![t] = IF r.ret THEN k ELSE rkey[t]]
        /\ last' = LockerCall("start_reading", k, FALSE, d, r)
    /\ UNCHANGED <<txnVars, evalVars, buildVars, groupVars>>

PairStartWriting(t, k) ==
    /\ lpc[t] = "idle" /\ rpc[t] = "idle"
    /\ LET d == start_writing(reading, writing, k)
           r == Redis_start_writing(lock, k)
       IN
        /\ Apply(d)
        /\ lock' = r.lk
        /\ lpc' = [lpc EXCEPT ![t] = IF d.ret THEN "writing" ELSE "idle"]
        /\ lkey' = [lkey EXCEPT ![t] = IF d.ret THEN k ELSE lkey[t]]
        /\ rpc' = [rpc EXCEPT ![t] = IF r.ret THEN "writing" ELSE "idle"]
        /\ rkey' = [rkey EXCEPT ![t] = IF r.ret THEN k ELSE rkey[t]]
        /\ last' = LockerCall("start_writing", k, FALSE, d, r)
    /\ UNCHANGED <<txnVars, evalVars, buildVars, groupVars>>

PairStopReading(t) ==
    /\ lpc[t] = "reading" /\ rpc[t] = "reading" /\ lkey[t] = rkey[t]
    /\ LET d == stop_reading(reading, writing, lkey[t])
           r == Redis_stop_reading(lock, rkey[t])
       IN
        /\ Apply(d)
        /\ lock' = r.lk
        /\ last' = LockerCall("stop_reading", lkey[t], FALSE, d, r)
    /\ lpc' = [lpc EXCEPT ![t] = "idle"]
    /\ rpc' = [rpc EXCEPT ![t] = "idle"]
    /\ UNCHANGED <<lkey, rkey, txnVars, evalVars, buildVars, groupVars>>

PairStopWriting(t) ==
    /\ lpc[t] = "writing" /\ rpc[t] = "writing" /\ lkey[t] = rkey[t]
    /\ LET d == stop_writing(reading, writing, lkey[t])
           r == Redis_stop_writing(lock, rkey[t])
       IN
        /\ Apply(d)
        /\ lock' = r.lk
        /\ last' = LockerCall("stop_writing", lkey[t], FALSE, d, r)
    /\ lpc' = [lpc EXCEPT ![t] = "idle"]
    /\ rpc' = [rpc EXCEPT ![t] = "idle"]
    /\ UNCHANGED <<lkey, rkey, txnVars, evalVars, buildVars, groupVars>>

InitShared == LockerInit /\ LockerThreadsInit /\ TxnIdle /\ EvalIdle /\ BuildIdle /\ GroupIdle /\ SharedIdle

NextShared ==
    \E t \in Threads :
        \/ \E k \in Keys : PairStartReading(t, k)
        \/ \E k \in Keys : PairStartWriting(t, k)
        \/ PairStopReading(t)
        \/ PairStopWriting(t)

SpecShared == InitShared /\ [][NextShared]_vars

\* the clients that hold key k on the shared-KV locker
RedisReaders(k) == {t \in Threads : rpc[t] = "reading" /\ rkey[t] = k}
RedisWriters(k) == {t \in Threads : rpc[t] = "writing" /\ rkey[t] = k}

\* C21: the lock field of a key is absent when nobody holds the key, -1 when
\* one writer holds it, and otherwise the number (at least 1) of the readers
\* holding it; start_writing succeeds only on an absent field and start_reading
\* fails only on -1, so a writer is alone on its key.
C21_LockField ==
    \A k \in Keys :
        /\ hget(lock, k) = <<>> <=> (RedisReaders(k) = {} /\ RedisWriters(k) = {})
        /\ hget(lock, k) = <<-1>> <=> Cardinality(RedisWriters(k)) = 1
        /\ hget(lock, k) # <<>> =>
              \/ lock[k] = -1
              \/ lock[k] >= 1 /\ lock[k] = Cardinality(RedisReaders(k))
        /\ Redis_start_writing(lock, k).ret => hget(lock, k) = <<>>
        /\ ~Redis_start_reading(lock, k).ret => hget(lock, k) = <<-1>>
        /\ Cardinality(RedisWriters(k)) <= 1
        /\ RedisWriters(k) # {} => RedisReaders(k) = {}

\* C21 witness: a reader holds one key, a writer holds the other, and the
\* call made last was a start_reading the writer's key refused
C21_Witness ==
    \E k1, k2 \in Keys :
        /\ hget(lock, k1) = <<1>> /\ Cardinality(RedisReaders(k1)) = 1
        /\ hget(lock, k2) = <<-1>> /\ RedisWriters(k2) # {}
        /\ last.op = "start_reading" /\ last.key = k2 /\ ~last.rret

\* C26: at every step both lockers give the same answer and raise nothing, the
\* clients hold the same on both, and the states correspond: field absent <->
\* read count 0 and write flag 0, field -1 <-> write flag 1, field n >= 1 <->
\* read count n.
C26_Equivalent ==
    /\ last.dret = last.rret
    /\ ~last.derr /\ ~last.rerr /\ assertOK
    /\ lpc = rpc
    /\ \A k \in Keys :
          /\ hget(lock, k) = <<>> <=> (reading[k] = 0 /\ writing[k] = 0)
          /\ hget(lock, k) = <<-1>> <=> writing[k] = 1
          /\ \A n \in 1..NThreads : hget(lock, k) = <<n>> <=> reading[k] = n
          /\ start_reading(reading, writing, k).ret = Redis_start_reading(lock, k).ret
          /\ start_writing(reading, writing, k).ret = Redis_start_writing(lock, k).ret

\* C26 witness: both lockers refused a writer on a key two readers hold
C26_Witness ==
    /\ last.op = "start_writing" /\ ~last.dret /\ ~last.rret
    /\ reading[last.key] = 2 /\ hget(lock, last.key) = <<2>>

\* ------------------------------------------------- unmatched releases
\* A client also calls stop_reading on a key nobody reads, and stop_writing on
\* a key nobody writes.
StrayStopReading(k) ==
    /\ \A t \in Threads : ~(lpc[t] = "reading" /\ lkey[t] = k)
    /\ \A t \in Threads : ~(rpc[t] = "reading" /\ rkey[t] = k)
    /\ LET d == stop_reading(reading, writing, k)
           r == Redis_stop_reading(lock, k)
       IN
        /\ Apply(d)
        /\ lock' = r.lk
        /\ last' = LockerCall("stop_reading", k, TRUE, d, r)
    /\ UNCHANGED <<lpc, lkey, rpc, rkey, txnVars, evalVars, buildVars, groupVars>>

StrayStopWriting(k) ==
    /\ \A t \in Threads : ~(lpc[t] = "writing" /\ lkey[t] = k)
    /\ \A t \in Threads : ~(rpc[t] = "writing" /\ rkey[t] = k)
    /\ LET d == stop_writing(reading, writing, k)
           r == Redis_stop_writing(lock, k)
       IN
        /\ Apply(d)
        /\ lock' = r.lk
        /\ last' = LockerCall("stop_writing", k, TRUE, d, r)
    /\ UNCHANGED <<lpc, lkey, rpc, rkey, txnVars, evalVars, buildVars, groupVars>>

NextStray ==
    \/ NextShared
    \/ \E k \in Keys : StrayStopReading(k)
    \/ \E k \in Keys : StrayStopWriting(k)

SpecStray == InitShared /\ [][NextStray]_vars

\* C27: a release with no matching reservation raises in both lockers and
\* changes no read count, no write flag and no lock field.
C27_StrayStep ==
    last'.stray => (last'.derr /\ last'.rerr /\ UNCHANGED <<reading, writing, lock>>)
C27_Original == [][C27_StrayStep]_vars

\* --------------------------------- MemoryCache through its transactions
\* wait_for_true(func, key, sleep_time, max_iterations), one poll:
\*   "ok"    func(key) was true, the loop ends
\*   "raise" func(key) was false and i >= max_iterations: RuntimeError
\*   "sleep" func(key) was false: sleep, i += 1, poll again
\* mutant: the cap is tested with > and allows one more poll
wait_for_true_late(ok, i, max_iterations) ==
    IF ok THEN "ok" ELSE IF i > max_iterations THEN "raise" ELSE "sleep"

\* mutant: the loop has no cap and sleeps until func(key) is true
wait_for_true_uncapped(ok, i, max_iterations) ==
    IF ok THEN "ok" ELSE "sleep_again"

wait_for_true(ok, i, max_iterations) ==
    IF ok THEN "ok" ELSE IF i >= max_iterations THEN "raise" ELSE "sleep"

\* ThreadedTransaction.reserve_write_or_read(key, contains), one try: the state
\* is inspected atomically; a stored key is reserved for reading, an absent key
\* for writing. ret: the locker granted the reservation.
reserve_try(rd, wr, key, contains) ==
    IF contains THEN start_reading(rd, wr, key) ELSE start_writing(rd, wr, key)

\* MemoryCache.reserve_write_or_read: the call starts waiting, i = 0
TReserve(t, k) ==
    /\ tpc[t] \in {"idle", "deadlock", "failed"}
    /\ tpc' = [tpc EXCEPT ![t] = "waiting"]
    /\ tkey' = [tkey EXCEPT ![t] = k]
    /\ titer' = [titer EXCEPT ![t] = 0]
    /\ tpolls' = [tpolls EXCEPT ![t] = 0]
    /\ UNCHANGED <<lockerVars, mcache, nwrites, badRead, evalVars, buildVars, groupVars, sharedVars>>

\* one iteration of the waiting loop; i counts the sleeps, so the call of
\* func(key) made with counter i is call i + 1 of this wait
TPoll(t) ==
    /\ tpc[t] = "waiting"
    /\ LET k == tkey[t]
           contains == k \in mcache
           o == reserve_try(reading, writing, k, contains)
           w == wait_for_true(o.ret, titer[t], MaxIterations)
       IN
        /\ Apply(o)
        /\ tpc' = [tpc EXCEPT ![t] =
                     CASE w = "ok" /\ contains -> "read_token"
                       [] w = "ok" /\ ~contains -> "write_token"
                       [] w = "raise" -> "deadlock"
                       [] OTHER -> "waiting"]
        /\ titer' = [titer EXCEPT ![t] = IF w = "sleep" THEN titer[t] + 1 ELSE titer[t]]
        /\ tpolls' = [tpolls EXCEPT ![t] = titer[t] + 1]
    /\ UNCHANGED <<lpc, lkey, mcache, tkey, nwrites, badRead, evalVars, buildVars, groupVars, sharedVars>>

\* MemoryCache.get -> release_read: read_fn = dict.__getitem__ starts
TBeginRead(t) ==
    /\ tpc[t] = "read_token"
    /\ tpc' = [tpc EXCEPT ![t] = "read_fn"]
    /\ badRead' = (badRead \/ tkey[t] \notin mcache)
    /\ UNCHANGED <<lockerVars, mcache, tkey, titer, tpolls, nwrites, evalVars, buildVars, groupVars, sharedVars>>

\* read_fn returned; the read reservation is released
TEndRead(t) ==
    /\ tpc[t] = "read_fn"
    /\ Apply(stop_reading(reading, writing, tkey[t]))
    /\ tpc' = [tpc EXCEPT ![t] = "idle"]
    /\ UNCHANGED <<lpc, lkey, mcache, tkey, titer, tpolls, nwrites, badRead, evalVars, buildVars, groupVars, sharedVars>>

\* MemoryCache.set -> release_write: write_fn = dict.__setitem__ starts
TBeginWrite(t) ==
    /\ tpc[t] = "write_token"
    /\ tpc' = [tpc EXCEPT ![t] = "write_fn"]
    /\ UNCHANGED <<lockerVars, mcache, tkey, titer, tpolls, nwrites, badRead, evalVars, buildVars, groupVars, sharedVars>>

\* inside write_fn the key becomes visible in the dict
TStore(t) ==
    /\ tpc[t] = "write_fn"
    /\ mcache' = mcache \cup {tkey[t]}
    /\ nwrites' = [nwrites EXCEPT ![tkey[t]] = nwrites[tkey[t]] + 1]
    /\ tpc' = [tpc EXCEPT ![t] = "write_fn_stored"]
    /\ UNCHANGED <<lockerVars, tkey, titer, tpolls, badRead, evalVars, buildVars, groupVars, sharedVars>>

\* write_fn returned; the write reservation is released
TEndWrite(t) ==
    /\ tpc[t] = "write_fn_stored"
    /\ Apply(stop_writing(reading, writing, tkey[t]))
    /\ tpc' = [tpc EXCEPT ![t] = "idle"]
    /\ UNCHANGED <<lpc, lkey, mcache, tkey, titer, tpolls, nwrites, badRead, evalVars, buildVars, groupVars, sharedVars>>

\* MemoryCache.fail: the reservation is released, nothing is read or stored
TFail(t) ==
    /\ tpc[t] \in {"read_token", "write_token"}
    /\ Apply(IF tpc[t] = "read_token"
             THEN stop_reading(reading, writing, tkey[t])
             ELSE stop_writing(reading, writing, tkey[t]))
    /\ tpc' = [tpc EXCEPT ![t] = "failed"]
    /\ UNCHANGED <<lpc, lkey, mcache, tkey, titer, tpolls, nwrites, badRead, evalVars, buildVars, groupVars, sharedVars>>

\* MemoryCache.__init__: an empty dict, a fresh ThreadedTransaction
InitTxn == LockerInit /\ LockerThreadsInit /\ TxnIdle /\ EvalIdle /\ BuildIdle /\ GroupIdle /\ SharedIdle

NextTxn ==
    \E t \in Threads :
        \/ \E k \in Keys : TReserve(t, k)
        \/ TPoll(t)
        \/ TBeginRead(t)
        \/ TEndRead(t)
        \/ TBeginWrite(t)
        \/ TStore(t)
        \/ TEndWrite(t)
        \/ TFail(t)

SpecTxn == InitTxn /\ [][NextTxn]_vars

InWriteFn(k) == {t \in Threads : tkey[t] = k /\ tpc[t] \in {"write_fn", "write_fn_stored"}}
InReadFn(k) == {t \in Threads : tkey[t] = k /\ tpc[t] = "read_fn"}

\* C2: for every key, at most one write_fn is executing at any instant, and no
\* read_fn executes while a write_fn for that key is executing.
C2_WriteExclusion ==
    \A k \in Keys :
        /\ Cardinality(InWriteFn(k)) <= 1
        /\ InWriteFn(k) # {} => InReadFn(k) = {}

\* C2 witness: two read_fn run simultaneously on a key while a third caller,
\* for another key, is inside write_fn
C2_Witness ==
    \E k1, k2 \in Keys :
        /\ k1 # k2
        /\ Cardinality(InReadFn(k1)) = 2
        /\ InWriteFn(k2) # {}

\* C3: a reservation is granted as a read only at an instant when the key is
\* stored and no writer holds it, and as a write only at an instant when the key
\* is absent; read_fn never runs on a missing key, a stored key is never stored
\* again, and each key is stored at most once.
C3_GrantStep ==
    \A t \in Threads :
        /\ (tpc[t] = "waiting" /\ tpc'[t] = "read_token")
              => (tkey[t] \in mcache /\ writing[tkey[t]] = 0)
        /\ (tpc[t] = "waiting" /\ tpc'[t] = "write_token")
              => (tkey[t] \notin mcache /\ writing[tkey[t]] = 0 /\ reading[tkey[t]] = 0)

C3_NoOverwriteStep == \A k \in Keys : k \in mcache => nwrites'[k] = nwrites[k]

C3_ReserveGrant ==
    /\ [][C3_GrantStep /\ C3_NoOverwriteStep]_vars
    /\ [](~badRead /\ \A k \in Keys : nwrites[k] <= 1)

\* C3 witness: a key was stored once, one caller then got a read reservation on
\* it and is inside read_fn, and another caller's write of the other key is granted
C3_Witness ==
    \E t1, t2 \in Threads :
        /\ tpc[t1] = "read_fn" /\ nwrites[tkey[t1]] = 1
        /\ tpc[t2] = "write_token" /\ tkey[t2] # tkey[t1]

\* ------------------------------------------------ values and node hashes
\* Values are naturals; Nothing (edges.py) is the one value outside them.
Nothing == -1

\* NodeHash.from_leaf(x) for a value, and for a function object
LeafHash(v) == <<"LEAF", v>>
FnLeaf(f) == <<"FN", f>>
\* NodeHash.from_hash_nodes(*children): a kind tag over the ordered children
from_hash_nodes(kind, children) == <<kind, children>>
\* `h.data is Nothing`
IsNothingHash(h) == h[1] = "LEAF" /\ h[2] = Nothing
\* Nothing.in_data / Nothing.in_hashes
in_data(data) == \E i \in 1..Len(data) : data[i] = Nothing
in_hashes(hs) == \E i \in 1..Len(hs) : IsNothingHash(hs[i])

\* the functions bound to FunctionEdges in the graphs below
CallFn(f, a) ==
    CASE f = "counter" -> a[1]
      [] f = "sq" -> a[1] * a[1]
      [] f = "add" -> a[1] + a[2]
      [] f = "mul" -> a[1] * a[2]
      [] f = "plus10" -> a[1] + 10
      [] f = "plus20" -> a[1] + 20
      [] f = "inv" -> 12 \div a[1]

\* the call of the function raises: inv divides by its argument
FnRaises(f, a) == f = "inv" /\ a[1] = 0

\* ------------------------------------------------------------ the graphs
None == [kind |-> "none"]
FunctionEdge(f) == [kind |-> "function", fn |-> f]
IdentityEdge == [kind |-> "identity"]
CacheEdge == [kind |-> "cache"]
\* layers/merge.py SwitchEdge(id_to_index, n_branches)
SwitchEdge(m) == [kind |-> "switch", id_to_index |-> m]

\* engine/edges.py ProductEdge(arity), SwitchEdge(selector) with a selector that
\* accepts the values in `accepts`, and ProjectionEdge()
ProductEdge == [kind |-> "product"]
SelectorEdge(accepts) == [kind |-> "selector", accepts |-> accepts]
ProjectionEdge == [kind |-> "projection"]

\* id_to_index of the SwitchLayer: identifier 1 -> branch 0, 2 -> branch 1
IdToIndex == [i \in {1, 2} |-> i - 1]

\* x -> f = counter(x) -> g = sq(f)
Plain ==
    [nodes |-> {"x", "f", "g"},
     parents |-> [n \in {"x", "f", "g"} |->
                    CASE n = "f" -> <<"x">> [] n = "g" -> <<"f">> [] OTHER -> <<>>],
     edge |-> [n \in {"x", "f", "g"} |->
                    CASE n = "f" -> FunctionEdge("counter")
                      [] n = "g" -> FunctionEdge("sq")
                      [] OTHER -> None],
     inputs |-> <<"x">>, output |-> "g"]

\* the same chain with a CacheEdge after f: x -> f -> c = cache(f) -> g = sq(c)
Cached ==
    [nodes |-> {"x", "f", "c", "g"},
     parents |-> [n \in {"x", "f", "c", "g"} |->
                    CASE n = "f" -> <<"x">> [] n = "c" -> <<"f">>
                      [] n = "g" -> <<"c">> [] OTHER -> <<>>],
     edge |-> [n \in {"x", "f", "c", "g"} |->
                    CASE n = "f" -> FunctionEdge("counter")
                      [] n = "c" -> CacheEdge
                      [] n = "g" -> FunctionEdge("sq")
                      [] OTHER -> None],
     inputs |-> <<"x">>, output |-> "g"]

\* s = add(x, y), p = mul(x, y), z = add(s, p), the inputs declared as [y, x]
Arith ==
    [nodes |-> {"x", "y", "s", "p", "z"},
     parents |-> [n \in {"x", "y", "s", "p", "z"} |->
                    CASE n = "s" -> <<"x", "y">> [] n = "p" -> <<"x", "y">>
                      [] n = "z" -> <<"s", "p">> [] OTHER -> <<>>],
     edge |-> [n \in {"x", "y", "s", "p", "z"} |->
                    CASE n = "s" -> FunctionEdge("add")
                      [] n = "p" -> FunctionEdge("mul")
                      [] n = "z" -> FunctionEdge("add")
                      [] OTHER -> None],
     inputs |-> <<"y", "x">>, output |-> "z"]

\* SwitchLayer.__init__ over two layers, the first one cached: the new input x
\* feeds each layer's input through an IdentityEdge, and the SwitchEdge is bound
\* to [x] + branches.  b0 = x, p0 = plus10(b0), o0 = cache(p0); b1 = x,
\* o1 = plus20(b1); out = switch[x, o0, o1]
SwitchedNodes == {"x", "b0", "p0", "o0", "b1", "o1", "out"}
Switched ==
    [nodes |-> SwitchedNodes,
     parents |-> [n \in SwitchedNodes |->
                    CASE n = "b0" -> <<"x">> [] n = "p0" -> <<"b0">>
                      [] n = "o0" -> <<"p0">>
                      [] n = "b1" -> <<"x">> [] n = "o1" -> <<"b1">>
                      [] n = "out" -> <<"x", "o0", "o1">> [] OTHER -> <<>>],
     edge |-> [n \in SwitchedNodes |->
                    CASE n = "b0" -> IdentityEdge [] n = "p0" -> FunctionEdge("plus10")
                      [] n = "o0" -> CacheEdge
                      [] n = "b1" -> IdentityEdge [] n = "o1" -> FunctionEdge("plus20")
                      [] n = "out" -> SwitchEdge(IdToIndex) [] OTHER -> None],
     inputs |-> <<"x">>, output |-> "out"]

\* a switch whose key is itself computed and cached upstream:
\* f = counter(x), c = cache(f), branches o0 = plus10(c), o1 = plus20(c),
\* out = switch[c, o0, o1]
Keyed ==
    [nodes |-> {"x", "f", "c", "o0", "o1", "out"},
     parents |-> [n \in {"x", "f", "c", "o0", "o1", "out"} |->
                    CASE n = "f" -> <<"x">> [] n = "c" -> <<"f">>
                      [] n = "o0" -> <<"c">> [] n = "o1" -> <<"c">>
                      [] n = "out" -> <<"c", "o0", "o1">> [] OTHER -> <<>>],
     edge |-> [n \in {"x", "f", "c", "o0", "o1", "out"} |->
                    CASE n = "f" -> FunctionEdge("counter") [] n = "c" -> CacheEdge
                      [] n = "o0" -> FunctionEdge("plus10")
                      [] n = "o1" -> FunctionEdge("plus20")
                      [] n = "out" -> SwitchEdge(IdToIndex) [] OTHER -> None],
     inputs |-> <<"x">>, output |-> "out"]

\* a slice of a chain: f = counter(x), g = sq(f), h = inv(g), k = plus10(h),
\* compiled with the inputs declared as [x, g]; g cuts x and f off
SlicedNodes == {"x", "f", "g", "h", "k"}
Sliced ==
    [nodes |-> SlicedNodes,
     parents |-> [n \in SlicedNodes |->
                    CASE n = "f" -> <<"x">> [] n = "g" -> <<"f">>
                      [] n = "h" -> <<"g">> [] n = "k" -> <<"h">>
                      [] OTHER -> <<>>],
     edge |-> [n \in SlicedNodes |->
                    CASE n = "f" -> FunctionEdge("counter") [] n = "g" -> FunctionEdge("sq")
                      [] n = "h" -> FunctionEdge("inv") [] n = "k" -> FunctionEdge("plus10")
                      [] OTHER -> None],
     inputs |-> <<"x", "g">>, output |-> "k"]

\* two selector switches on the input, their product, and its projection:
\* s0 = switch[x in {0, 1}](x), s1 = switch[x in {1, 2}](x), p = product(s0, s1),
\* out = projection(p)
ProjectedNodes == {"x", "s0", "s1", "p", "out"}
Projected ==
    [nodes |-> ProjectedNodes,
     parents |-> [n \in ProjectedNodes |->
                    CASE n = "s0" -> <<"x">> [] n = "s1" -> <<"x">>
                      [] n = "p" -> <<"s0", "s1">> [] n = "out" -> <<"p">>
                      [] OTHER -> <<>>],
     edge |-> [n \in ProjectedNodes |->
                    CASE n = "s0" -> SelectorEdge({0, 1}) [] n = "s1" -> SelectorEdge({1, 2})
                      [] n = "p" -> ProductEdge [] n = "out" -> ProjectionEdge
                      [] OTHER -> None],
     inputs |-> <<"x">>, output |-> "out"]

\* the plain chain and its cached twin are called in one session; every other
\* graph has a session of its own (graphs share no state)
Family(g) == IF g \in {"plain", "cached"} THEN "chain" ELSE g

\* the graphs whose users hash first and evaluate later (get_hash, get_value)
TwoStep == GraphNames \ {"arith", "projected"}

GraphDef(g) ==
    CASE g = "plain" -> Plain
      [] g = "cached" -> Cached
      [] g = "arith" -> Arith
      [] g = "switched" -> Switched
      [] g = "keyed" -> Keyed
      [] g = "sliced" -> Sliced
      [] g = "projected" -> Projected

Range(q) == {q[i] : i \in 1..Len(q)}
Arity(H, n) == Len(H.parents[n])

\* count_entries(inputs, output, multiplier): the visitor adds multiplier at
\* every visit and does not descend below a declared input; Visits counts the
\* visits of node target made by visitor(n)
RECURSIVE SumVisits(_, _, _, _)
RECURSIVE Visits(_, _, _)
Visits(H, n, target) ==
    (IF n = target THEN 1 ELSE 0)
    + (IF n \in Range(H.inputs) THEN 0 ELSE SumVisits(H, H.parents[n], 1, target))
SumVisits(H, ps, i, target) ==
    IF i > Len(ps) THEN 0
    ELSE Visits(H, ps[i], target) + SumVisits(H, ps, i + 1, target)

count_entries(H, multiplier) ==
    [n \in H.nodes |-> multiplier * Visits(H, H.output, n)]

\* Graph.__init__: counts = count_entries(inputs, output, multiplier=2)
Multiplier == 2

\* mutant: one count for a node however many passes ask for it
CountsOnePass(H) == count_entries(H, Multiplier - 1)

\* mutant: one count for each of the three passes the module docstring names
CountsThreePasses(H) == count_entries(H, Multiplier + 1)

Counts(H) == count_entries(H, Multiplier)

\* validate_graph(inputs, output): the visitor returns at a declared input,
\* asserts at a node without an edge, and visits the parents of any other node
RECURSIVE validate_visitor(_, _)
RECURSIVE validate_parents(_, _, _)
validate_visitor(H, node) ==
    IF node \in Range(H.inputs) THEN TRUE
    ELSE IF H.edge[node].kind = "none" THEN node \in Range(H.inputs)
    ELSE validate_parents(H, H.parents[node], 1)
validate_parents(H, ps, i) ==
    IF i > Len(ps) THEN TRUE
    ELSE validate_visitor(H, ps[i]) /\ validate_parents(H, ps, i + 1)

\* mutant: the visitor does not look at nodes without an edge
validate_graph_unchecked(H) == TRUE

validate_graph(H) == validate_visitor(H, H.output)

\* the names of the nodes in ascending order (str.__lt__)
NameOrder ==
    <<"b0", "b1", "c", "f", "g", "h", "k", "o0", "o1", "out", "p", "p0", "s",
      "s0", "s1", "x", "y", "z">>
NameRank(n) == CHOOSE i \in 1..Len(NameOrder) : NameOrder[i] = n

\* sorted(seq, key=lambda x: x.name): the least name first, then the rest
RECURSIVE sorted_by_name(_)
sorted_by_name(q) ==
    IF Len(q) = 0 THEN <<>>
    ELSE LET m == CHOOSE i \in 1..Len(q) :
                    \A j \in 1..Len(q) :
                        NameRank(q[i]) < NameRank(q[j]) \/ (NameRank(q[i]) = NameRank(q[j]) /\ i <= j)
         IN <<q[m]>> \o sorted_by_name(SubSeq(q, 1, m - 1) \o SubSeq(q, m + 1, Len(q)))

\* [x for x in inputs if counts.get(x, 0)]
positive_inputs(H, counts) == SelectSeq(H.inputs, LAMBDA x : counts[x] > 0)

\* mutant: the inputs keep the order they were declared in
graph_inputs_unsorted(H) == positive_inputs(H, Counts(H))

\* Graph.__init__: self.inputs = sorted([x for x in inputs if counts.get(x, 0)])
graph_inputs(H) == sorted_by_name(positive_inputs(H, Counts(H)))

\* Graph(inputs, output): the assert of validate_graph fails, or the graph is
\* built with its counts and its filtered, sorted inputs
Graph(H) ==
    IF ~validate_graph(H) THEN [ok |-> FALSE, err |-> "AssertionError"]
    ELSE [ok |-> TRUE, inputs |-> graph_inputs(H), output |-> H.output,
          counts |-> Counts(H)]

\* --------------------------------------------------------- EvictionCache
\* The per-call store the driver uses: `n in c`, c[n] = v, c[n], c.evict(n).
\* An entry can be read any number of times (graph.py reads one right after
\* writing it, lines 71-73 and 80-82, and again in get_hash / get_value); every
\* evict counts the key down and the entry is dropped when the count is spent.
ec_contains(c, k) == k \in DOMAIN c.cache
ec_insert(c, k, v) == [c EXCEPT !.cache = Put(c.cache, k, v)]
ec_get(c, k) == c.cache[k]
ec_evict(c, k) ==
    LET left == c.counts[k] - 1 IN
    EvictionCache([c.counts EXCEPT ![k] = left],
                  IF left <= 0 THEN Drop(c.cache, k) ELSE c.cache)

\* mutant: the dependencies are never cleared
clear_dependencies_skipped(c, inputs, i) == c

\* get_dependencies, "clear the dependencies": for n in inputs: c.evict(n)
RECURSIVE clear_dependencies(_, _, _)
clear_dependencies(c, inputs, i) ==
    IF i > Len(inputs) THEN c
    ELSE clear_dependencies(ec_evict(c, inputs[i]), inputs, i + 1)

\* ------------------------------------------------------------- the edges
\* What a generator does when it is resumed, given the replies it got so far:
\* it yields a request (parent index, kind), returns, or raises.
Yield(idx, kind) == [t |-> "yield", idx |-> idx, kind |-> kind]
Return(val, store, invoked) ==
    [t |-> "return", val |-> val, store |-> store, invoked |-> invoked]
Raise(e) == [t |-> "raise", err |-> e]

\* FULL_MASK: every parent index
FULL_MASK(arity) == [i \in 1..arity |-> i - 1]

\* FunctionEdge._process_hashes
Function_process_hashes(e, hs) ==
    IF in_hashes(hs) THEN <<LeafHash(Nothing), FULL_MASK(Len(hs))>>
    ELSE <<from_hash_nodes("FUNCTION", <<FnLeaf(e.fn)>> \o hs), FULL_MASK(Len(hs))>>

\* FunctionEdge._evaluate
Function_evaluate(e, arguments, store) ==
    IF in_data(arguments) THEN Return(Nothing, store, 0)
    ELSE IF FnRaises(e.fn, arguments) THEN Raise("ZeroDivisionError")
    ELSE Return(CallFn(e.fn, arguments), store, 1)

\* IdentityEdge._process_hashes / _evaluate
Identity_process_hashes(hs) == <<hs[1], FULL_MASK(1)>>
Identity_evaluate(arguments, store) == Return(arguments[1], store, 0)

\* mutant: the cache edge never finds its hash in the storage
Cache_process_hashes_nohit(hs, store) == <<hs[1], FULL_MASK(1)>>

\* CacheEdge._process_hashes: an empty mask when the storage contains the hash
Cache_process_hashes(hs, store) ==
    <<hs[1], IF hs[1] \in DOMAIN store THEN <<>> ELSE FULL_MASK(1)>>

\* mutant: a value is stored under a key that ignores the hash
Cache_evaluate_onekey(arguments, node_hash, store) ==
    IF Len(arguments) = 0 THEN
        IF DOMAIN store # {} THEN Return(store[CHOOSE h \in DOMAIN store : TRUE], store, 0)
        ELSE Raise("KeyError")
    ELSE Return(arguments[1], Put(store, node_hash, arguments[1]), 0)

\* mutant: the value is stored and not returned
Cache_evaluate_noreturn(arguments, node_hash, store) ==
    IF Len(arguments) = 0 THEN
        IF node_hash \in DOMAIN store THEN Return(store[node_hash], store, 0)
        ELSE Raise("KeyError")
    ELSE Return(Nothing, Put(store, node_hash, arguments[1]), 0)

\* CacheEdge._evaluate: no arguments means that the value is cached
Cache_evaluate(arguments, node_hash, store) ==
    IF Len(arguments) = 0 THEN
        IF node_hash \in DOMAIN store THEN Return(store[node_hash], store, 0)
        ELSE Raise("KeyError")
    ELSE IF arguments[1] = Nothing THEN Return(Nothing, store, 0)
    ELSE Return(arguments[1], Put(store, node_hash, arguments[1]), 0)

\* ProductEdge._process_hashes / _evaluate: the children under one hash, the
\* arguments as they are
Product_process_hashes(hs) == <<from_hash_nodes("PRODUCT", hs), FULL_MASK(Len(hs))>>
Product_evaluate(arguments, store) == Return(arguments, store, 0)

\* NodeHash.data and NodeHash.children: the payload of a leaf (<<>> for None),
\* the children of a composite
hash_data(h) == IF h[1] = "LEAF" THEN <<h[2]>> ELSE <<>>
hash_children(h) == IF h[1] = "LEAF" THEN <<>> ELSE h[2]

\* self.selector(node_hash.data)
selector(e, data) == data # <<>> /\ data[1] \in e.accepts

\* mutant: the switch hands the parent's hash on whatever the selector says
Selector_process_hashes_open(e, hs) == <<hs[1], FULL_MASK(1)>>

\* edges.py SwitchEdge._process_hashes: leaf(Nothing) when the selector refuses
Selector_process_hashes(e, hs) ==
    <<IF ~selector(e, hash_data(hs[1])) THEN LeafHash(Nothing) ELSE hs[1], FULL_MASK(1)>>

\* edges.py SwitchEdge._evaluate: Nothing when the node's hash is that of Nothing
Selector_evaluate(arguments, node_hash, store) ==
    IF IsNothingHash(node_hash) THEN Return(Nothing, store, 0)
    ELSE Return(arguments[1], store, 0)

\* ProjectionEdge._process_hashes: the children of the parent's hash that are
\* not the hash of Nothing; `assert len(real) == 1`
real_hashes(hs) == SelectSeq(hash_children(hs[1]), LAMBDA v : ~IsNothingHash(v))
Projection_process_hashes(hs) == <<real_hashes(hs)[1], FULL_MASK(1)>>

\* ProjectionEdge._evaluate: the values of arguments[0] that are not Nothing;
\* `assert len(real) == 1, real`
real_values(arguments) == SelectSeq(arguments[1], LAMBDA v : v # Nothing)
Projection_evaluate(arguments, store) ==
    IF Len(real_values(arguments)) # 1 THEN Raise("AssertionError")
    ELSE Return(real_values(arguments)[1], store, 0)

\* _process_hashes / _evaluate of the edge bound to a node
process_hashes(e, hs, store) ==
    CASE e.kind = "function" -> Function_process_hashes(e, hs)
      [] e.kind = "identity" -> Identity_process_hashes(hs)
      [] e.kind = "cache" -> Cache_process_hashes(hs, store)
      [] e.kind = "product" -> Product_process_hashes(hs)
      [] e.kind = "selector" -> Selector_process_hashes(e, hs)
      [] e.kind = "projection" -> Projection_process_hashes(hs)

\* _process_hashes raises: the assert of the ProjectionEdge fails
process_hashes_raises(e, hs) == e.kind = "projection" /\ Len(real_hashes(hs)) # 1

edge_evaluate(e, arguments, node_hash, store) ==
    CASE e.kind = "function" -> Function_evaluate(e, arguments, store)
      [] e.kind = "identity" -> Identity_evaluate(arguments, store)
      [] e.kind = "cache" -> Cache_evaluate(arguments, node_hash, store)
      [] e.kind = "product" -> Product_evaluate(arguments, store)
      [] e.kind = "selector" -> Selector_evaluate(arguments, node_hash, store)
      [] e.kind = "projection" -> Projection_evaluate(arguments, store)

\* mutant: the parents are asked for their hashes from the last to the first
Edge_compute_hash_reversed(e, arity, got, store) ==
    IF Len(got) < arity THEN Yield(arity - 1 - Len(got), "Hash")
    ELSE IF process_hashes_raises(e, [i \in 1..arity |-> got[arity + 1 - i]])
    THEN Raise("AssertionError")
    ELSE Return(process_hashes(e, [i \in 1..arity |-> got[arity + 1 - i]], store), store, 0)

\* Edge.compute_hash: request every parent's hash in order, then return
\* (output hash, mask) from _process_hashes
Edge_compute_hash(e, arity, got, store) ==
    IF Len(got) < arity THEN Yield(Len(got), "Hash")
    ELSE IF process_hashes_raises(e, got) THEN Raise("AssertionError")
    ELSE Return(process_hashes(e, got, store), store, 0)

\* Edge.evaluate(output, mask): request the value of every parent in the mask,
\* then return _evaluate(arguments, mask, output)
Edge_evaluate(e, output, mask, got, store) ==
    IF Len(got) < Len(mask) THEN Yield(mask[Len(got) + 1], "Value")
    ELSE edge_evaluate(e, got, output, store)

\* mutant: the branch requested is the parent at idx, not at idx + 1
Switch_compute_hash_shifted(e, got, store) ==
    IF Len(got) = 0 THEN Yield(0, "Value")
    ELSE IF got[1] \notin DOMAIN e.id_to_index THEN Raise("ValueError")
    ELSE IF Len(got) = 1 THEN Yield(e.id_to_index[got[1]], "Hash")
    ELSE Return(<<got[2], e.id_to_index[got[1]]>>, store, 0)

\* mutant: every branch is asked for its hash before the one selected is returned
Switch_compute_hash_eager(e, got, store) ==
    IF Len(got) = 0 THEN Yield(0, "Value")
    ELSE IF got[1] \notin DOMAIN e.id_to_index THEN Raise("ValueError")
    ELSE IF Len(got) <= Cardinality(DOMAIN e.id_to_index) THEN Yield(Len(got), "Hash")
    ELSE Return(<<got[e.id_to_index[got[1]] + 2], e.id_to_index[got[1]]>>, store, 0)

\* mutant: an unknown key falls back to the first branch
Switch_compute_hash_default(e, got, store) ==
    IF Len(got) = 0 THEN Yield(0, "Value")
    ELSE IF Len(got) = 1 THEN
        Yield((IF got[1] \in DOMAIN e.id_to_index THEN e.id_to_index[got[1]] ELSE 0) + 1, "Hash")
    ELSE Return(<<got[2], IF got[1] \in DOMAIN e.id_to_index
                          THEN e.id_to_index[got[1]] ELSE 0>>, store, 0)

\* merge.py SwitchEdge.compute_hash
Switch_compute_hash(e, got, store) ==
    IF Len(got) = 0 THEN Yield(0, "Value")
    ELSE IF got[1] \notin DOMAIN e.id_to_index THEN Raise("ValueError")
    ELSE IF Len(got) = 1 THEN Yield(e.id_to_index[got[1]] + 1, "Hash")
    ELSE Return(<<got[2], e.id_to_index[got[1]]>>, store, 0)

\* merge.py SwitchEdge.evaluate
Switch_evaluate(payload, got, store) ==
    IF Len(got) = 0 THEN Yield(payload + 1, "Value")
    ELSE Return(got[1], store, 0)

\* ------------------------------------------------------------ the driver
\* A frame of evaluate(node, ...) or compute_hash(node, ...):
\*   pc "enter"   at `if node not in cache`
\*      "hashing" evaluate waits for compute_hash(node)
\*      "hashed"  evaluate has (output, payload)
\*      "deps"    in get_dependencies, about to iterator.send(value)
\*      "wait"    in get_dependencies, waiting for the requested parent
Frame(op, n) ==
    [op |-> op, node |-> n, pc |-> "enter", got |-> <<>>, req |-> "",
     out |-> <<>>, payload |-> <<>>]

G == GraphDef(graph)
Top == stack[Len(stack)]
Rest == SubSeq(stack, 1, Len(stack) - 1)
TopCache == IF Top.op = "evaluate" THEN values ELSE hashes

\* iterator.send(value) on the generator of the top frame
GenNext(fr, store) ==
    LET e == G.edge[fr.node] IN
    IF fr.op = "compute_hash" THEN
        IF e.kind = "switch" THEN Switch_compute_hash(e, fr.got, store)
        ELSE Edge_compute_hash(e, Arity(G, fr.node), fr.got, store)
    ELSE
        IF e.kind = "switch" THEN Switch_evaluate(fr.payload, fr.got, store)
        ELSE Edge_evaluate(e, fr.out, fr.payload, fr.got, store)

\* the stack once the top frame has returned retval to its caller
Delivered(rest, retval) ==
    IF Len(rest) = 0 THEN rest
    ELSE LET p == rest[Len(rest)] IN
         [rest EXCEPT ![Len(rest)] =
            IF p.pc = "hashing"
            THEN [p EXCEPT !.pc = "hashed", !.out = retval[1], !.payload = retval[2]]
            ELSE [p EXCEPT !.pc = "deps",
                           !.got = Append(p.got, IF p.req = "Hash" THEN retval[1] ELSE retval)]]

Bump(f, k) == Put(f, k, (IF k \in DOMAIN f THEN f[k] ELSE 0) + 1)

\* mutant: get_hash hands out the payload stored next to the hash
get_hash_result_payload(e) == e[2]

\* get_hash: `return hashes[self.output][0], (hashes, cache)`
get_hash_result(e) == e[1]

\* `return cache[node]`: the top frame reads its node's entry and returns it.
\* When the stack is empty the entry point returns: Graph.call returns the
\* value, get_hash reads hashes[output] and returns its hash, get_value reads
\* cache[output] and returns it.
ReturnToCaller(retval) ==
    /\ stack' = Delivered(Rest, retval)
    /\ nget' = IF Top.op = "evaluate"
               THEN [nget EXCEPT !.v = Bump(@, Top.node)]
               ELSE [nget EXCEPT !.h = Bump(@, Top.node)]
    /\ IF Len(Rest) > 0 THEN UNCHANGED <<cstate, result, results, hres>>
       ELSE IF entry = "get_hash"
       THEN /\ cstate' = "hashed"
            /\ hres' = get_hash_result(ec_get(hashes', G.output))
            /\ UNCHANGED <<result, results>>
       ELSE /\ cstate' = "done"
            /\ result' = retval
            /\ results' = results \cup
                 {[g |-> graph, args |-> args, val |-> retval,
                   hash |-> IF entry = "call" THEN hlog'[G.output] ELSE hres,
                   how |-> entry]}
            /\ UNCHANGED hres

\* an exception leaves get_dependencies, evaluate and the entry point: nothing
\* catches it, and the caches of the call are dropped with its frames
Fail(e) ==
    /\ cstate' = "failed"
    /\ cerr' = e
    /\ cfail' = <<Top.op, Top.node>>
    /\ failures' = failures \cup {[g |-> graph, args |-> args, how |-> entry, err |-> e]}
    /\ stack' = <<>>
    /\ hashes' = EvictionCache(EmptyMap, EmptyMap)
    /\ values' = EvictionCache(EmptyMap, EmptyMap)
    /\ UNCHANGED <<result, results, nget, hres>>

\* _prepare_cache(arguments) and the first frame of an entry point
Enter(g, a, how, op) ==
    /\ cstate \in {"idle", "done", "failed"}
    /\ ncalls < MaxCalls
    /\ ncalls = 0 \/ Family(g) = Family(graph)
    /\ how = "call" \/ g \in TwoStep
    /\ Graph(GraphDef(g)).ok
    /\ ncalls' = ncalls + 1
    /\ graph' = g
    /\ args' = a
    /\ entry' = how
    /\ cstate' = "running"
    /\ hashes' = EvictionCache(Graph(GraphDef(g)).counts,
                    [n \in Range(Graph(GraphDef(g)).inputs) |-> <<LeafHash(a[n]), <<>>>>])
    /\ values' = EvictionCache(Graph(GraphDef(g)).counts,
                    [n \in Range(Graph(GraphDef(g)).inputs) |-> a[n]])
    /\ stack' = <<Frame(op, GraphDef(g).output)>>
    /\ result' = 0
    /\ cerr' = ""
    /\ cfail' = <<>>
    /\ hres' = <<>>
    /\ act' = <<>>
    /\ store0' = storage[g]
    /\ hstarted' = {}
    /\ vstarted' = {}
    /\ hlog' = EmptyMap
    /\ vlog' = EmptyMap
    /\ nget' = [h |-> EmptyMap, v |-> EmptyMap]
    /\ UNCHANGED <<storage, fcalls, results, failures, lockerVars, txnVars, buildVars, groupVars, sharedVars>>

\* Graph.call(*args): bind the arguments, _prepare_cache, evaluate(output, ...)
Call(g, a) == Enter(g, a, "call", "evaluate")

\* Graph.get_hash(*inputs): _prepare_cache, compute_hash(output, ...)
GetHash(g, a) == Enter(g, a, "get_hash", "compute_hash")

\* Graph.get_value(hashes, cache) on the caches get_hash returned
GetValue ==
    /\ cstate = "hashed"
    /\ cstate' = "running"
    /\ entry' = "get_value"
    /\ stack' = <<Frame("evaluate", G.output)>>
    /\ UNCHANGED <<storage, fcalls, ncalls, results, graph, args, hashes, values,
                   result, cerr, store0, hstarted, vstarted, hlog, vlog, nget,
                   hres, cfail, act, failures, lockerVars, txnVars, buildVars, groupVars, sharedVars>>

\* evaluate / compute_hash: the node is in the cache, `return cache[node]`
EnterHit ==
    /\ cstate = "running"
    /\ Top.pc = "enter"
    /\ ec_contains(TopCache, Top.node)
    /\ UNCHANGED <<hlog, hashes>>
    /\ ReturnToCaller(ec_get(TopCache, Top.node))
    /\ UNCHANGED <<storage, fcalls, ncalls, graph, args, values, cerr, store0,
                   hstarted, vstarted, vlog, entry, cfail, act, failures,
                   lockerVars, txnVars, buildVars, groupVars, sharedVars>>

\* evaluate: the node is not in cache, `output, payload = compute_hash(node, ...)`
EvaluateMiss ==
    /\ cstate = "running"
    /\ Top.op = "evaluate"
    /\ Top.pc = "enter"
    /\ ~ec_contains(values, Top.node)
    /\ stack' = Append([stack EXCEPT ![Len(stack)].pc = "hashing"],
                       Frame("compute_hash", Top.node))
    /\ UNCHANGED <<storage, fcalls, ncalls, results, cstate, graph, args, hashes, values,
                   result, cerr, store0, hstarted, vstarted, hlog, vlog, nget,
                   entry, hres, cfail, act, failures, lockerVars, txnVars, buildVars, groupVars, sharedVars>>

\* compute_hash: the node is not in hashes, `it = node.edge.compute_hash()`;
\* a node without an edge has nothing to call and the call fails
ComputeHashMiss ==
    /\ cstate = "running"
    /\ Top.op = "compute_hash"
    /\ Top.pc = "enter"
    /\ ~ec_contains(hashes, Top.node)
    /\ IF G.edge[Top.node].kind = "none"
       THEN /\ Fail("AttributeError")
            /\ UNCHANGED <<hstarted, act>>
       ELSE /\ stack' = [stack EXCEPT ![Len(stack)].pc = "deps"]
            /\ hstarted' = hstarted \cup {Top.node}
            /\ act' = Append(act, <<"compute_hash", Top.node>>)
            /\ UNCHANGED <<results, cstate, hashes, values, result, cerr, nget,
                           hres, cfail, failures>>
    /\ UNCHANGED <<storage, fcalls, ncalls, graph, args, store0, vstarted, hlog, vlog,
                   entry, lockerVars, txnVars, buildVars, groupVars, sharedVars>>

\* evaluate: `it = node.edge.evaluate(output, payload)`
StartEvaluate ==
    /\ cstate = "running"
    /\ Top.pc = "hashed"
    /\ stack' = [stack EXCEPT ![Len(stack)].pc = "deps"]
    /\ vstarted' = vstarted \cup {Top.node}
    /\ act' = Append(act, <<"evaluate", Top.node>>)
    /\ UNCHANGED <<storage, fcalls, ncalls, results, cstate, graph, args, hashes, values,
                   result, cerr, store0, hstarted, hlog, vlog, nget,
                   entry, hres, cfail, failures, lockerVars, txnVars, buildVars, groupVars, sharedVars>>

\* get_dependencies: the generator yields (index, cmd); the driver calls
\* compute_hash or evaluate on inputs[index]
Request ==
    /\ cstate = "running"
    /\ Top.pc = "deps"
    /\ LET r == GenNext(Top, storage[graph]) IN
        /\ r.t = "yield"
        /\ stack' = Append([stack EXCEPT ![Len(stack)].pc = "wait",
                                         ![Len(stack)].req = r.kind],
                           Frame(IF r.kind = "Hash" THEN "compute_hash" ELSE "evaluate",
                                 G.parents[Top.node][r.idx + 1]))
    /\ UNCHANGED <<storage, fcalls, ncalls, results, cstate, graph, args, hashes, values,
                   result, cerr, store0, hstarted, vstarted, hlog, vlog, nget,
                   entry, hres, cfail, act, failures, lockerVars, txnVars, buildVars, groupVars, sharedVars>>

\* get_dependencies after StopIteration: every input is evicted from both
\* caches, the result r is written under the node and read back
Finish(r) ==
    LET n == Top.node
        h2 == clear_dependencies(hashes, G.parents[n], 1)
        v2 == clear_dependencies(values, G.parents[n], 1)
    IN
        /\ storage' = [storage EXCEPT ![graph] = r.store]
        /\ fcalls' = [fcalls EXCEPT ![graph] =
                        IF r.invoked = 0 THEN @
                        ELSE Bump(@, n)]
        /\ IF Top.op = "compute_hash"
           THEN /\ hashes' = ec_insert(h2, n, r.val)
                /\ values' = v2
                /\ hlog' = Put(hlog, n, r.val[1])
                /\ UNCHANGED vlog
           ELSE /\ hashes' = h2
                /\ values' = ec_insert(v2, n, r.val)
                /\ vlog' = Put(vlog, n, r.val)
                /\ UNCHANGED hlog
        /\ ReturnToCaller(r.val)
        /\ UNCHANGED <<ncalls, graph, args, cerr, store0, hstarted, vstarted,
                       entry, cfail, act, failures, lockerVars, txnVars, buildVars, groupVars, sharedVars>>

\* get_dependencies: the generator returns
Complete ==
    /\ cstate = "running"
    /\ Top.pc = "deps"
    /\ GenNext(Top, storage[graph]).t = "return"
    /\ Finish(GenNext(Top, storage[graph]))

\* mutant: the driver catches the exception and goes on with Nothing
Raised_recovered ==
    /\ cstate = "running"
    /\ Top.pc = "deps"
    /\ GenNext(Top, storage[graph]).t = "raise"
    /\ Finish(Return(IF Top.op = "compute_hash" THEN <<LeafHash(Nothing), <<>>>>
                     ELSE Nothing, storage[graph], 0))

\* get_dependencies: the generator raises
Raised ==
    /\ cstate = "running"
    /\ Top.pc = "deps"
    /\ LET r == GenNext(Top, storage[graph]) IN
        /\ r.t = "raise"
        /\ Fail(r.err)
    /\ UNCHANGED <<storage, fcalls, ncalls, graph, args, store0, hstarted, vstarted,
                   hlog, vlog, entry, act, lockerVars, txnVars, buildVars, groupVars, sharedVars>>

Inputs == 0..MaxInput
ArgsOf(g) == [Range(Graph(GraphDef(g)).inputs) -> Inputs]

InitEval == LockerInit /\ LockerThreadsInit /\ TxnIdle /\ EvalIdle /\ BuildIdle /\ GroupIdle /\ SharedIdle

NextEval ==
    \/ \E g \in GraphNames : \E a \in ArgsOf(g) : Call(g, a)
    \/ \E g \in GraphNames : \E a \in ArgsOf(g) : GetHash(g, a)
    \/ GetValue
    \/ EnterHit
    \/ EvaluateMiss
    \/ ComputeHashMiss
    \/ StartEvaluate
    \/ Request
    \/ Complete
    \/ Raised

SpecEval == InitEval /\ [][NextEval]_vars

\* ------------------------------------------------- claims on evaluation
Done == cstate = "done"
Held(c) == DOMAIN c.cache
\* how often evict(n) ran on a cache during this call
Evicted(c, n) == Counts(G)[n] - c.counts[n]
Reads(f, n) == IF n \in DOMAIN f THEN f[n] ELSE 0
Slots(H, n) == Cardinality({<<m, i>> \in H.nodes \X (1..3) :
                               i <= Len(H.parents[m]) /\ H.parents[m][i] = n})
\* a graph of function and identity edges in which no computed node feeds more
\* than one edge: every edge requests each of its parents in both passes
Tree(H) ==
    \A n \in H.nodes :
        /\ H.edge[n].kind \in {"none", "function", "identity"}
        /\ n \notin Range(H.inputs) => Slots(H, n) <= 1

\* C4 (as stated): after a call that returns normally both EvictionCaches hold
\* no entry at all, the output node's included.
C4_Original == Done => (Held(hashes) = {} /\ Held(values) = {})

\* C4 (amended): after a call that returns normally the output node's hash and
\* value are still held; in a graph of function and identity edges where no
\* computed node feeds more than one edge, every other entry has been dropped.
C4_Drained ==
    Done =>
        /\ G.output \in Held(hashes)
        /\ G.output \in Held(values)
        /\ Tree(G) => (Held(hashes) = {G.output} /\ Held(values) = {G.output})

\* C4 witness: a call of the two-input graph returned and only z is held
C4_Witness ==
    /\ Done /\ graph = "arith" /\ args["x"] # args["y"]
    /\ Held(hashes) = {"z"} /\ Held(values) = {"z"}

\* C5 (as stated): counts[n] equals the number of times n is consulted in each
\* of the two caches, reading "consulted" as evicted, as looked up, or as both.
C5_Original ==
    Done =>
        \E sense \in {"evicted", "looked up", "both"} :
            \A n \in G.nodes :
                LET eh == IF sense = "looked up" THEN 0 ELSE Evicted(hashes, n)
                    ev == IF sense = "looked up" THEN 0 ELSE Evicted(values, n)
                    gh == IF sense = "evicted" THEN 0 ELSE Reads(nget.h, n)
                    gv == IF sense = "evicted" THEN 0 ELSE Reads(nget.v, n)
                IN Counts(G)[n] = eh + gh /\ Counts(G)[n] = ev + gv

\* C5 (amended): counts[n] bounds the evictions of n from each cache during a
\* call; the output is never evicted; in a graph of function and identity edges
\* where no computed node feeds more than one edge, every other node has been
\* evicted exactly counts[n] times from each cache when the call returns.
C5_CountsBound ==
    /\ cstate \in {"running", "done"} =>
          \A n \in G.nodes :
              /\ 0 <= Evicted(hashes, n) /\ Evicted(hashes, n) <= Counts(G)[n]
              /\ Evicted(values, n) = Evicted(hashes, n)
    /\ Done =>
          /\ Evicted(hashes, G.output) = 0
          /\ Tree(G) => \A n \in G.nodes \ {G.output} :
                            Evicted(hashes, n) = Counts(G)[n]

\* C5 witness: the two-input graph returned; x, a parent of two edges, was
\* evicted four times, and the output keeps its count of two
C5_Witness ==
    /\ Done /\ graph = "arith"
    /\ Counts(G)["x"] = 4 /\ Evicted(values, "x") = 4
    /\ hashes.counts["z"] = 2

\* the CacheEdge of the graph called and whether this call hit its storage
CacheNodes == {n \in G.nodes : G.edge[n].kind = "cache"}
Hit(n) == n \in DOMAIN hlog /\ hlog[n] \in DOMAIN store0
Upstream(n) == G.parents[n][1]
SeenArgs(g) == {r.args : r \in {q \in results : q.g = g}}

\* C6: when the hash of the CacheEdge's parent is already stored, the edge
\* returns the stored value and its parent is never evaluated; over any sequence
\* of calls of the chain f -> CacheEdge, f has run once per distinct input.
C6_CacheHit ==
    /\ \A n \in CacheNodes :
          Hit(n) => /\ Upstream(n) \notin vstarted
                    /\ n \in DOMAIN vlog => vlog[n] = store0[hlog[n]]
                    /\ storage[graph] = store0
    /\ (cstate # "running" /\ Family(graph) = "chain") =>
          Reads(fcalls["cached"], "f") = Cardinality(SeenArgs("cached"))

\* C6 witness: the third call of the cached chain repeats an input, hits the
\* storage, and f has run twice in all
C6_Witness ==
    /\ Done /\ graph = "cached" /\ ncalls = 3
    /\ Hit("c") /\ "c" \in DOMAIN vlog
    /\ Reads(fcalls["cached"], "f") = 2

\* C7: for the same input the chain with the CacheEdge returns the same value
\* and the same hash as the chain without it, whatever was called before.
C7_Transparent ==
    \A r1, r2 \in results :
        (r1.g = "plain" /\ r2.g = "cached" /\ r1.args = r2.args)
            => (r1.val = r2.val /\ r1.hash = r2.hash)

\* C7 witness: the cached chain returned from a hit and the plain chain had
\* returned for the same input
C7_Witness ==
    /\ Done /\ graph = "cached" /\ Hit("c")
    /\ \E r \in results : r.g = "plain" /\ r.args = args

SwitchNodes == {n \in G.nodes : G.edge[n].kind = "switch"}
KeyNode(n) == G.parents[n][1]
KeyKnown(n) ==
    IF KeyNode(n) \in Range(G.inputs) THEN TRUE ELSE KeyNode(n) \in DOMAIN vlog
KeyValue(n) ==
    IF KeyNode(n) \in Range(G.inputs) THEN args[KeyNode(n)] ELSE vlog[KeyNode(n)]
Branch(n, i) == G.parents[n][i + 2]
RECURSIVE Ancestors(_, _)
Ancestors(H, n) ==
    {n} \cup UNION {Ancestors(H, H.parents[n][i]) : i \in 1..Len(H.parents[n])}
\* the nodes that belong to some branch and not to the key
BranchOnly(n) ==
    UNION {Ancestors(G, Branch(n, i)) : i \in 0..(Len(G.parents[n]) - 2)}
        \ Ancestors(G, KeyNode(n))

\* C9: for a key id with id_to_index[id] = i the SwitchEdge's hash is the hash
\* of branch i (parent i + 1) and its value is the value of branch i.
C9_Routing ==
    Done => \A n \in SwitchNodes :
        LET i == G.edge[n].id_to_index[KeyValue(n)]
            b == Branch(n, i)
        IN /\ b \in DOMAIN hlog /\ hlog[n] = hlog[b]
           /\ b \in DOMAIN vlog /\ vlog[n] = vlog[b]
           /\ vlog[n] = KeyValue(n) + 10 * (i + 1)

\* C9 witness: key 2 is routed to branch 1, whose function adds 20
C9_Witness ==
    /\ Done /\ graph = "switched" /\ args["x"] = 2 /\ result = 22
    /\ hlog["out"] = hlog["o1"]

UnknownKey(n) == KeyKnown(n) /\ KeyValue(n) \notin DOMAIN G.edge[n].id_to_index

\* C10 (as stated): with a key that is not in the index map the call fails in
\* the hash phase; no branch is hashed or evaluated, no value is returned and
\* nothing is written to any cache store.
C10_Original ==
    \A n \in SwitchNodes :
        (cstate \in {"done", "failed"} /\ UnknownKey(n)) =>
            /\ cstate = "failed" /\ cerr = "ValueError"
            /\ BranchOnly(n) \cap (hstarted \cup vstarted) = {}
            /\ storage[graph] = store0

\* C10 (amended): with a key that is not in the index map the call fails with
\* the ValueError raised by compute_hash; no branch is hashed or evaluated and
\* no value is returned; a cache store is written only by a cache edge the key
\* itself is computed through, never when the key is an input of the graph.
C10_UnknownKey ==
    \A n \in SwitchNodes :
        (cstate \in {"done", "failed"} /\ UnknownKey(n)) =>
            /\ cstate = "failed" /\ cerr = "ValueError"
            /\ n \in hstarted /\ n \notin vstarted /\ n \notin DOMAIN hlog
            /\ BranchOnly(n) \cap (hstarted \cup vstarted) = {}
            /\ KeyNode(n) \in Range(G.inputs) => storage[graph] = store0
            /\ storage[graph] # store0 =>
                  \E c \in CacheNodes \cap Ancestors(G, KeyNode(n)) :
                      /\ c \in DOMAIN vlog
                      /\ storage[graph] = Put(store0, hlog[c], vlog[c])

\* C10 witness: the computed key 0 is unknown; the call failed after the cache
\* edge the key comes from had stored its value
C10_Witness ==
    /\ cstate = "failed" /\ cerr = "ValueError" /\ graph = "keyed"
    /\ UnknownKey("out") /\ storage[graph] # store0

\* the generator of the top frame is about to raise
Raising ==
    /\ cstate = "running"
    /\ Top.pc = "deps"
    /\ GenNext(Top, storage[graph]).t = "raise"
\* what a frame was computing has been recorded: the hash of its node for a
\* frame of compute_hash, the value for a frame of evaluate
Recorded(fr, hl, vl) ==
    IF fr.op = "compute_hash" THEN fr.node \in DOMAIN hl ELSE fr.node \in DOMAIN vl
Dependants(n) == {d \in G.nodes \ {n} : n \in Ancestors(G, d)}

\* C11 (as stated): when a generator raised, neither a hash nor a value has
\* been recorded for the failing node or for any node that depends on it.
C11_Original ==
    (cstate = "failed" /\ cerr # "AttributeError") =>
        \A d \in {cfail[2]} \cup Dependants(cfail[2]) :
            d \notin DOMAIN hlog /\ d \notin DOMAIN vlog

\* the step taken when a generator raises: the call fails with that error,
\* every frame is dropped, and what the failing frame and the frames waiting
\* on it were computing is not recorded; nothing is returned or stored
C11_FailStep ==
    Raising =>
        /\ cstate' = "failed"
        /\ cerr' = GenNext(Top, storage[graph]).err
        /\ cfail' = <<Top.op, Top.node>>
        /\ stack' = <<>>
        /\ \A i \in 1..Len(stack) : ~Recorded(stack[i], hlog', vlog')
        /\ hlog' = hlog /\ vlog' = vlog
        /\ result' = result /\ results' = results /\ storage' = storage
\* after the failure the driver takes no further step of that call: the next
\* step is a new entry
C11_NoResume ==
    cstate = "failed" => (ncalls' = ncalls + 1 /\ Len(stack') = 1 /\ act' = <<>>)

\* C11 (amended): when an edge generator raises, the call ends with that error
\* and returns nothing; the driver does not catch it and runs no other node;
\* neither the product of the failing generator nor that of any generator
\* waiting on it is recorded.  Hashes recorded earlier in the call by finished
\* compute_hash generators, the failing node's own included, are not undone.
C11_FailStop ==
    /\ [][C11_FailStep /\ C11_NoResume]_vars
    /\ [](cstate = "failed" =>
            /\ stack = <<>>
            /\ ~Recorded([op |-> cfail[1], node |-> cfail[2]], hlog, vlog)
            /\ G.output \notin DOMAIN vlog
            /\ ~\E r \in results : r.g = graph /\ r.args = args)

\* C11 witness: inv raised in the value pass at h; the hashes of h and of k,
\* which depends on h, had been recorded; no value was
C11_Witness ==
    /\ cstate = "failed" /\ cerr = "ZeroDivisionError" /\ graph = "sliced"
    /\ cfail = <<"evaluate", "h">>
    /\ {"h", "k"} \subseteq DOMAIN hlog
    /\ DOMAIN vlog = {}

\* ------------------------------------------------- graph construction
\* Graph(inputs, output) over the nodes and edges of a shape, with any list of
\* distinct nodes declared as its inputs
MaxDeclared == 2
Declarations(H) ==
    {q \in UNION {[1..k -> H.nodes] : k \in 0..MaxDeclared} :
        \A i, j \in 1..Len(q) : i # j => q[i] # q[j]}
Declared(g, q) == [GraphDef(g) EXCEPT !.inputs = q]
B == Declared(bshape, bdecl)

\* Graph.__init__: validate_graph raises, or the callable gets its signature
Construct ==
    /\ bstate = "new"
    /\ bstate' = IF Graph(B).ok THEN "built" ELSE "failed"
    /\ bparams' = IF Graph(B).ok THEN Graph(B).inputs ELSE <<>>
    /\ UNCHANGED <<bshape, bdecl, lockerVars, txnVars, evalVars, groupVars, sharedVars>>

InitBuild ==
    /\ LockerInit /\ LockerThreadsInit /\ TxnIdle /\ EvalIdle /\ SharedIdle
    /\ bshape \in GraphNames
    /\ bdecl \in Declarations(GraphDef(bshape))
    /\ bstate = "new"
    /\ bparams = <<>>
    /\ GroupIdle

NextBuild == Construct

SpecBuild == InitBuild /\ [][NextBuild]_vars

\* the nodes a traversal from the output reaches when it stops at the
\* declared inputs, as the closure of a set
RECURSIVE ReachClosure(_, _)
ReachClosure(H, S) ==
    LET S2 == S \cup UNION {Range(H.parents[n]) : n \in S \ Range(H.inputs)}
    IN IF S2 = S THEN S ELSE ReachClosure(H, S2)
Reach(H) == ReachClosure(H, {H.output})
Leaves(H) == {n \in H.nodes : H.edge[n].kind = "none"}

\* C12: construction succeeds if and only if every node without an inbound
\* edge that is reachable from the output, the traversal stopping at declared
\* inputs, is a declared input; otherwise it fails and no callable exists.
C12_Validation ==
    bstate # "new" =>
        /\ bstate = "built" <=> (Reach(B) \cap Leaves(B)) \subseteq Range(bdecl)
        /\ bstate = "failed" => bparams = <<>>

\* C12 witness: the chain x -> f -> g is built with f as its only declared
\* input; the leaf x lies behind f and is not declared
C12_Witness ==
    /\ bstate = "built" /\ bshape = "plain" /\ bdecl = <<"f">>
    /\ "x" \in Leaves(B) /\ "x" \notin Reach(B)

\* C13: the parameters of the callable are exactly the declared inputs that the
\* traversal from the output reaches (positive count), in ascending name
\* order; the arguments are bound to them; no declared input and no node
\* upstream of one is ever hashed or evaluated during a call.
C13_Parameters ==
    cstate # "idle" =>
        LET params == Graph(G).inputs IN
        /\ Range(params) = Range(G.inputs) \cap Reach(G)
        /\ \A n \in G.nodes : Counts(G)[n] > 0 <=> n \in Reach(G)
        /\ \A i, j \in 1..Len(params) : i < j => NameRank(params[i]) < NameRank(params[j])
        /\ DOMAIN args = Range(params)
        /\ (hstarted \cup vstarted) \subseteq (Reach(G) \ Range(G.inputs))
        /\ DOMAIN fcalls[graph] \subseteq (Reach(G) \ Range(G.inputs))

\* C13 witness: the slice declared with [x, g] was called with g = 2 and
\* returned 12 / 2 + 10; x is declared and is no parameter, f never ran; the
\* two-input graph declared with [y, x] takes (x, y)
C13_Witness ==
    /\ Done /\ graph = "sliced" /\ G.inputs = <<"x", "g">>
    /\ Graph(G).inputs = <<"g">> /\ args["g"] = 2 /\ result = 16
    /\ "f" \notin hstarted /\ "f" \notin DOMAIN fcalls[graph]
    /\ Graph(Arith).inputs = <<"x", "y">>

\* the place of a generator in the order of activations of this call
Started(op, n) == \E i \in 1..Len(act) : act[i] = <<op, n>>
Pos(op, n) == CHOOSE i \in 1..Len(act) : act[i] = <<op, n>>
\* no compute_hash generator of the graph asks for a value
HashOnly == \A n \in SwitchNodes : KeyNode(n) \in Range(G.inputs)

TwoStepRecords == {r \in results : r.how = "get_value"}
CallRecords == {r \in results : r.how = "call"}
Same(r1, r2) == r1.g = r2.g /\ r1.args = r2.args

Release(t) ==
    \/ TBeginRead(t) \/ TEndRead(t)
    \/ TBeginWrite(t) \/ TStore(t) \/ TEndWrite(t)
    \/ TFail(t)
FairTxn == \A t \in Threads : WF_vars(TPoll(t)) /\ WF_vars(Release(t))
SpecTxnFair == SpecTxn /\ FairTxn

Granted(t) == tpc[t] \in {"read_token", "write_token"}

\* C16 (as stated): under fair scheduling, with every reservation released in
\* the end, every reserve_write_or_read call is eventually granted.
C16_Original == \A t \in Threads : (tpc[t] = "waiting") ~> Granted(t)

\* C16 (amended): under fair scheduling every reserve_write_or_read call ends:
\* it is granted, or it raises the deadlock RuntimeError after max_iterations
\* failed polls.  A grant is not guaranteed: the write reservation of an absent
\* key is refused while another caller holds the key.
C16_ReserveEnds ==
    \A t \in Threads : (tpc[t] = "waiting") ~> (Granted(t) \/ tpc[t] = "deadlock")

\* C16 witness: a caller waiting for the write reservation of an absent key
\* has raised while another caller held that reservation and nothing was stored
C16_Witness ==
    \E t1, t2 \in Threads :
        /\ tpc[t1] = "deadlock" /\ titer[t1] = MaxIterations
        /\ tpc[t2] = "write_token" /\ tkey[t2] = tkey[t1]
        /\ tkey[t1] \notin mcache

\* ------------------------------------------------ callers that keep polling
\* A caller inside wait_for_true goes on with its loop; nothing is assumed of
\* the callers that hold a reservation.
FairPoll == \A t \in Threads : WF_vars(TPoll(t))
SpecTxnPoll == SpecTxn /\ FairPoll

\* func(key) as the caller t would find it in this state
FuncTrue(t) == reserve_try(reading, writing, tkey[t], tkey[t] \in mcache).ret

\* C22: a poll that finds func(key) true ends the wait; a false poll goes on
\* to sleep while fewer than max_iterations polls were made before it, and
\* raises the deadlock RuntimeError when it is poll max_iterations + 1.
C22_PollStep ==
    \A t \in Threads :
        (tpc[t] = "waiting" /\ tpolls'[t] = tpolls[t] + 1) =>
            /\ FuncTrue(t) => tpc'[t] \in {"read_token", "write_token"}
            /\ (~FuncTrue(t) /\ tpolls[t] < MaxIterations) => tpc'[t] = "waiting"
            /\ (~FuncTrue(t) /\ tpolls[t] >= MaxIterations) => tpc'[t] = "deadlock"

\* C22: func is called at most max_iterations + 1 times, the error is raised
\* only by poll max_iterations + 1, and every wait ends, with a grant or with
\* the error, whether or not anybody releases anything.
C22_Terminates ==
    /\ [][C22_PollStep]_vars
    /\ [](\A t \in Threads :
            /\ tpolls[t] <= MaxIterations + 1
            /\ tpc[t] = "waiting" => tpolls[t] <= MaxIterations
            /\ tpc[t] = "deadlock" => tpolls[t] = MaxIterations + 1)
    /\ \A t \in Threads : (tpc[t] = "waiting") ~> (tpc[t] # "waiting")

\* C22 witness: one caller raised at poll max_iterations + 1 while the holder
\* of the key still has its reservation, and another caller was granted its
\* reservation at its second poll
C22_Witness ==
    \E t1, t2, t3 \in Threads :
        /\ tpc[t1] = "deadlock" /\ tpolls[t1] = MaxIterations + 1
        /\ tpc[t2] = "write_token" /\ tkey[t2] = tkey[t1]
        /\ tpc[t3] \in {"read_token", "write_token"} /\ tpolls[t3] = 2

\* C23: fail on a write reservation leaves the key idle and absent, so that
\* the next reservation of it is a write and is granted; fail on a read
\* reservation takes one off the read count; neither touches the store, the
\* other keys or the other callers.
C23_FailStep ==
    \A t \in Threads :
        LET k == tkey[t] IN
        (tpc[t] \in {"read_token", "write_token"} /\ tpc'[t] = "failed") =>
            /\ mcache' = mcache /\ nwrites' = nwrites /\ assertOK'
            /\ \A u \in Threads \ {t} : tpc'[u] = tpc[u] /\ tkey'[u] = tkey[u]
            /\ \A j \in Keys \ {k} : reading'[j] = reading[j] /\ writing'[j] = writing[j]
            /\ tpc[t] = "write_token" =>
                  /\ reading'[k] = 0 /\ writing'[k] = 0 /\ k \notin mcache'
                  /\ reserve_try(reading', writing', k, k \in mcache').ret
            /\ tpc[t] = "read_token" =>
                  /\ reading'[k] = reading[k] - 1 /\ writing'[k] = writing[k]
                  /\ k \in mcache'
C23_FailReleases == [][C23_FailStep]_vars

\* C23 witness: a caller failed its write reservation of a key; the key is
\* still absent and another caller now holds the write reservation of it,
\* while a third caller failed a read of the other key
C23_Witness ==
    \E t1, t2, t3 \in Threads :
        /\ tpc[t1] = "failed" /\ tkey[t1] \notin mcache
        /\ tpc[t2] = "write_token" /\ tkey[t2] = tkey[t1]
        /\ tpc[t3] = "failed" /\ tkey[t3] \in mcache

\* ------------------------------------------- group-by edges (layers/goup.py)
\* MappingEdge and GroupEdge hold a Graph built over the wrapped layer and ask
\* it for the value of one identifier at a time with self.graph.eval(i).
GroupKeys == {0, 1}

\* what an object of class Graph (engine/graph.py) has: the methods of the
\* class and the attributes __init__ assigns
GraphAttributes ==
    {"__init__", "_prepare_cache", "get_hash", "get_value", "hash",
     "use_hash", "inputs", "output", "counts", "call"}

\* self.graph.<name>(i): the value of the subgraph for identifier i when the
\* object has the attribute, AttributeError otherwise
graph_method(name, sub, i) ==
    IF name \in GraphAttributes THEN Ok(sub[i]) ELSE Raise("AttributeError")

\* self.graph.eval(i)
graph_eval(sub, i) == graph_method("eval", sub, i)

\* tuple(sorted(v)) for a list of identifiers
RECURSIVE sorted_ids(_)
sorted_ids(q) ==
    IF Len(q) = 0 THEN <<>>
    ELSE LET m == CHOOSE i \in 1..Len(q) :
                    \A j \in 1..Len(q) : q[i] < q[j] \/ (q[i] = q[j] /\ i <= j)
         IN <<q[m]>> \o sorted_ids(SubSeq(q, 1, m - 1) \o SubSeq(q, m + 1, Len(q)))

\* MappingEdge._evaluate, the loop: mapping[self.graph.eval(i)].append(i)
RECURSIVE Mapping_loop(_, _, _, _)
Mapping_loop(ids, k, mapping, sub) ==
    IF k > Len(ids) THEN Ok(mapping)
    ELSE LET r == graph_eval(sub, ids[k]) IN
         IF r.t = "raise" THEN r
         ELSE Mapping_loop(ids, k + 1,
                Put(mapping, r.val,
                    Append(IF r.val \in DOMAIN mapping THEN mapping[r.val] ELSE <<>>, ids[k])),
                sub)

\* MappingEdge._evaluate(arguments, mask, node_hash) with self._mapping = memo
\* (<<>> for None, <<m>> once set): the outcome and self._mapping afterwards
Mapping_evaluate(arguments, memo, sub) ==
    IF Len(memo) > 0 THEN [out |-> Ok(memo[1]), memo |-> memo]
    ELSE LET r == Mapping_loop(arguments[1], 1, EmptyMap, sub) IN
         IF r.t = "raise" THEN [out |-> r, memo |-> memo]
         ELSE LET m == [k \in DOMAIN r.val |-> sorted_ids(r.val[k])]
              IN [out |-> Ok(m), memo |-> <<m>>]

\* GroupEdge._evaluate, the loop: result[i] = self.graph.eval(i)
RECURSIVE Group_loop(_, _, _, _)
Group_loop(ids, k, res, sub) ==
    IF k > Len(ids) THEN Ok(res)
    ELSE LET r == graph_eval(sub, ids[k]) IN
         IF r.t = "raise" THEN r
         ELSE Group_loop(ids, k + 1, Put(res, ids[k], r.val), sub)

\* GroupEdge._evaluate(arguments, mask, node_hash): ids = arguments[1][arguments[0]]
Group_evaluate(arguments, sub) ==
    IF arguments[1] \notin DOMAIN arguments[2] THEN Raise("KeyError")
    ELSE Group_loop(arguments[2][arguments[1]], 1, EmptyMap, sub)

\* the lists of distinct identifiers an `ids` node can hold
IdLists ==
    {q \in UNION {[1..k -> Ids] : k \in 0..MaxIds} :
        \A i, j \in 1..Len(q) : i # j => q[i] # q[j]}

\* the mapping {key: sorted tuple of the ids with that key} of a list of ids
\* under a key function, as a set comprehension
ClassOf(ids, h, k) == {i \in Range(ids) : h[i] = k}
RECURSIVE Ascending(_)
Ascending(S) ==
    IF S = {} THEN <<>>
    ELSE LET m == CHOOSE x \in S : \A y \in S : x <= y
         IN <<m>> \o Ascending(S \ {m})
MappingOf(ids, h) ==
    [k \in {h[i] : i \in Range(ids)} |-> Ascending(ClassOf(ids, h, k))]

\* MappingEdge._compute_mask, HashMappingEdge._compute_mask: no parent is
\* asked for once self._mapping is set
Mapping_compute_mask(memo) == IF Len(memo) > 0 THEN <<>> ELSE FULL_MASK(1)

\* the calls of self.graph.eval a loop over ids makes: one per id, up to the
\* first that raises
eval_calls(ids, sub) ==
    LET raising == {k \in 1..Len(ids) : graph_eval(sub, ids[k]).t = "raise"} IN
    IF raising = {} THEN Len(ids)
    ELSE CHOOSE k \in raising : \A j \in raising : k <= j

\* HashMappingEdge._evaluate, the loop over the ids, with one comparator (==):
\* keys = self.graph.eval(i); the id joins the first group whose entry
\* compares equal, or starts a group.  groups is a list of <<keys, container>>
RECURSIVE HashMapping_loop(_, _, _, _)
HashMapping_loop(ids, k, groups, sub) ==
    IF k > Len(ids) THEN Ok(groups)
    ELSE LET r == graph_eval(sub, ids[k]) IN
         IF r.t = "raise" THEN r
         ELSE LET found == {g \in 1..Len(groups) : groups[g][1] = <<r.val>>} IN
              HashMapping_loop(ids, k + 1,
                IF found = {} THEN Append(groups, <<(<<r.val>>), <<ids[k]>>>>)
                ELSE LET g == CHOOSE x \in found : \A y \in found : x <= y
                     IN [groups EXCEPT ![g] = <<groups[g][1], Append(groups[g][2], ids[k])>>],
                sub)

\* hasher(b''.join(hasher(i.encode()).digest() for i in ids)).hexdigest():
\* a digest that tells any two tuples of ids apart
hexdigest(ids) == <<"sha256", ids>>

\* HashMappingEdge._evaluate(arguments, mask, node_hash) with self._mapping = memo
HashMapping_evaluate(arguments, memo, sub) ==
    IF Len(memo) > 0 THEN [out |-> Ok(memo[1]), memo |-> memo]
    ELSE LET r == HashMapping_loop(arguments[1], 1, <<>>, sub) IN
         IF r.t = "raise" THEN [out |-> r, memo |-> memo]
         ELSE LET keys == {hexdigest(sorted_ids(r.val[g][2])) : g \in 1..Len(r.val)} IN
              IF Cardinality(keys) # Len(r.val)
              THEN [out |-> Raise("AssertionError"), memo |-> memo]
              ELSE LET m == [d \in keys |-> d[2]]
                   IN [out |-> Ok(m), memo |-> <<m>>]

\* the arguments Edge.evaluate collects for a mask: the ids when the parent is
\* in the mask, nothing when the mask is empty
MaskedArguments(mask, ids) == IF Len(mask) = 0 THEN <<>> ELSE <<ids>>

\* the first outcome of an edge is kept; later ones do not replace it
FirstOutcome(first, edge, out) ==
    IF first[edge] = <<>> THEN [first EXCEPT ![edge] = <<out>>] ELSE first

\* the MappingEdge is evaluated: the first time on the ids of the dataset,
\* later on any list of ids
MappingEvaluate(ids) ==
    /\ gop \in {"new", "mapping"}
    /\ gop = "new" => ids = gids
    /\ gn < MaxEvaluations
    /\ LET mask == Mapping_compute_mask(gmemo)
           r == Mapping_evaluate(MaskedArguments(mask, ids), gmemo, gsub)
       IN
        /\ gmask' = mask
        /\ gout' = r.out
        /\ gmemo' = r.memo
        /\ gfirst' = FirstOutcome(gfirst, "mapping", r.out)
        /\ gcalls' = gcalls + (IF Len(gmemo) > 0 THEN 0 ELSE eval_calls(ids, gsub))
    /\ gop' = "mapping"
    /\ garg' = <<ids>>
    /\ gn' = gn + 1
    /\ UNCHANGED <<gids, gsub, ghmemo, lockerVars, txnVars, evalVars, buildVars, sharedVars>>

\* the HashMappingEdge is evaluated, likewise
HashMappingEvaluate(ids) ==
    /\ gop \in {"new", "hash_mapping"}
    /\ gop = "new" => ids = gids
    /\ gn < MaxEvaluations
    /\ LET mask == Mapping_compute_mask(ghmemo)
           r == HashMapping_evaluate(MaskedArguments(mask, ids), ghmemo, gsub)
       IN
        /\ gmask' = mask
        /\ gout' = r.out
        /\ ghmemo' = r.memo
        /\ gfirst' = FirstOutcome(gfirst, "hash_mapping", r.out)
        /\ gcalls' = gcalls + (IF Len(ghmemo) > 0 THEN 0 ELSE eval_calls(ids, gsub))
    /\ gop' = "hash_mapping"
    /\ garg' = <<ids>>
    /\ gn' = gn + 1
    /\ UNCHANGED <<gids, gsub, gmemo, lockerVars, txnVars, evalVars, buildVars, sharedVars>>

\* the GroupEdge is evaluated on a new id and a mapping of the ids
GroupEvaluate(new_id, h) ==
    /\ gop = "new"
    /\ new_id \in DOMAIN MappingOf(gids, h)
    /\ gout' = Group_evaluate(<<new_id, MappingOf(gids, h)>>, gsub)
    /\ gop' = "group"
    /\ garg' = <<new_id, MappingOf(gids, h)>>
    /\ gmask' = FULL_MASK(2)
    /\ gn' = gn + 1
    /\ gcalls' = gcalls + eval_calls(MappingOf(gids, h)[new_id], gsub)
    /\ UNCHANGED <<gids, gsub, gmemo, ghmemo, gfirst, lockerVars, txnVars, evalVars, buildVars, sharedVars>>

InitGroup ==
    /\ LockerInit /\ LockerThreadsInit /\ TxnIdle /\ EvalIdle /\ BuildIdle /\ SharedIdle
    /\ gids \in IdLists
    /\ gsub \in [Ids -> GroupKeys]
    /\ gmemo = <<>>
    /\ gop = "new"
    /\ garg = <<>>
    /\ gout = Ok(EmptyMap)
    /\ ghmemo = <<>>
    /\ gmask = <<>>
    /\ gfirst = [mapping |-> <<>>, hash_mapping |-> <<>>]
    /\ gn = 0
    /\ gcalls = 0

NextGroup ==
    \/ \E ids \in IdLists : MappingEvaluate(ids)
    \/ \E ids \in IdLists : HashMappingEvaluate(ids)
    \/ \E new_id \in GroupKeys \cup Ids : \E h \in [Ids -> GroupKeys] \cup {[i \in Ids |-> i]} :
          GroupEvaluate(new_id, h)

SpecGroup == InitGroup /\ [][NextGroup]_vars

\* C17: the MappingEdge evaluated over ids returns a partition of the ids:
\* the keys are the values of the subgraph, every id is in the class of its
\* key and in no other, and each class is the ascending tuple of its members.
C17_Original ==
    gop = "mapping" =>
        /\ gout.t = "ok"
        /\ DOMAIN gout.val = {gsub[i] : i \in Range(gids)}
        /\ \A k \in DOMAIN gout.val :
              /\ Range(gout.val[k]) = ClassOf(gids, gsub, k)
              /\ gout.val[k] = Ascending(ClassOf(gids, gsub, k))
        /\ Cardinality(DOMAIN gout.val) = Cardinality({gsub[i] : i \in Range(gids)})

\* C18: the GroupEdge given a new id and a mapping returns a result whose
\* keys are exactly mapping[new_id], with result[i] = subgraph(i); when every
\* class is a single id, the result at an id is the subgraph's value for it.
C18_Original ==
    gop = "group" =>
        /\ gout.t = "ok"
        /\ DOMAIN gout.val = Range(garg[2][garg[1]])
        /\ \A i \in DOMAIN gout.val : gout.val[i] = gsub[i]

\* C24 (as stated): once a MappingEdge or a HashMappingEdge was evaluated,
\* every later evaluation of it, whatever the ids, has an empty mask, makes no
\* call of the subgraph and returns the mapping the first evaluation stored.
C24_LaterStep ==
    (gn >= 1 /\ gn' = gn + 1 /\ gop' \in {"mapping", "hash_mapping"}) =>
        /\ gmask' = <<>>
        /\ gcalls' = gcalls
        /\ gout'.t = "ok"
        /\ gout' = gfirst[gop'][1]
C24_Original == [][C24_LaterStep]_vars

\* what does hold: an evaluation that returned has stored its mapping, and
\* from then on the stored mapping is returned with an empty mask and without
\* a call of the subgraph
C24_AfterReturn ==
    (gn >= 1 /\ gn' = gn + 1 /\ gop' \in {"mapping", "hash_mapping"}
        /\ gfirst[gop'][1].t = "ok") => C24_LaterStep
C24_Memoized == [][C24_AfterReturn]_vars

\* a node whose entry a cache has held during this call: seeded, or written
\* when its generator returned
Seeded == Range(Graph(G).inputs)
HadHash(n) == n \in Seeded \/ n \in DOMAIN hlog
HadValue(n) == n \in Seeded \/ n \in DOMAIN vlog

Requested == stack'[Len(stack')].node

\* the step in which the generator of a SwitchEdge asks for a parent: the key
\* first, then the branch the key maps to
C20_RequestStep ==
    (/\ cstate = "running" /\ Len(stack) > 0
     /\ Top.pc = "deps" /\ Top.node \in SwitchNodes
     /\ Len(stack') = Len(stack) + 1) =>
        IF Top.op = "compute_hash" /\ Len(Top.got) = 0
        THEN Requested = KeyNode(Top.node)
        ELSE /\ KeyKnown(Top.node)
             /\ Requested =
                  Branch(Top.node, G.edge[Top.node].id_to_index[KeyValue(Top.node)])

\* the nodes of the branches other than branch i that neither branch i nor
\* the key is computed from
OtherBranches(n, i) ==
    UNION {Ancestors(G, Branch(n, j)) : j \in (0..(Len(G.parents[n]) - 2)) \ {i}}
        \ (Ancestors(G, Branch(n, i)) \cup Ancestors(G, KeyNode(n)))

\* C20: in a call whose key maps to branch i the SwitchEdge asks for its key
\* and for branch i only, and no node that belongs only to another branch is
\* hashed or evaluated.
C20_Lazy ==
    /\ [][C20_RequestStep]_vars
    /\ [](\A n \in SwitchNodes :
            (cstate \in {"running", "hashed", "done"} /\ KeyKnown(n)
             /\ KeyValue(n) \in DOMAIN G.edge[n].id_to_index) =>
                OtherBranches(n, G.edge[n].id_to_index[KeyValue(n)])
                    \cap (hstarted \cup vstarted) = {})

\* C20 witness: key 1 maps to branch 0; the call returned 1 + 10 and neither
\* b1 nor o1, the nodes of branch 1, was hashed or evaluated
C20_Witness ==
    /\ Done /\ graph = "switched" /\ args["x"] = 1 /\ result = 11
    /\ {"b0", "p0", "o0", "out"} \subseteq hstarted
    /\ {"b1", "o1"} \cap (hstarted \cup vstarted) = {}
    /\ OtherBranches("out", 0) = {"b1", "o1"}

\* the selector switches of the projected graph that accept the input of a call
SelectorNodes == {n \in ProjectedNodes : Projected.edge[n].kind = "selector"}
Accepting(a) ==
    {n \in SelectorNodes : selector(Projected.edge[n], hash_data(LeafHash(a["x"])))}

\* C25: in a call of the product of selector switches under a projection in
\* which exactly one selector accepts the input, neither assert of the
\* ProjectionEdge fails; the accepted switch has the input's hash and value,
\* every refused switch has leaf(Nothing) and Nothing; and the hash and the
\* value of the projection are those of the accepted switch.
C25_Agreement ==
    /\ \A f \in failures : f.g = "projected" => Cardinality(Accepting(f.args)) # 1
    /\ (graph = "projected" /\ Cardinality(Accepting(args)) = 1) =>
          /\ cstate # "failed"
          /\ \A n \in SelectorNodes \cap DOMAIN hlog :
                hlog[n] = IF n \in Accepting(args) THEN LeafHash(args["x"])
                          ELSE LeafHash(Nothing)
          /\ \A n \in SelectorNodes \cap DOMAIN vlog :
                vlog[n] = IF n \in Accepting(args) THEN args["x"] ELSE Nothing
          /\ "out" \in DOMAIN hlog =>
                \E n \in Accepting(args) \cap DOMAIN hlog : hlog["out"] = hlog[n]
          /\ "out" \in DOMAIN vlog =>
                \E n \in Accepting(args) \cap DOMAIN vlog : vlog["out"] = vlog[n]
          /\ cstate = "done" =>
                /\ result = args["x"]
                /\ DOMAIN vlog = ProjectedNodes \ {"x"}

\* C25 witness: the call with x = 2 returned 2 through the second switch, the
\* first switch gave Nothing with the hash of Nothing, and an earlier call with
\* x = 0 went through the first switch
C25_Witness ==
    /\ graph = "projected" /\ cstate = "done" /\ args["x"] = 2 /\ result = 2
    /\ vlog["s0"] = Nothing /\ hlog["s0"] = LeafHash(Nothing)
    /\ hlog["s1"] = LeafHash(2) /\ hlog["out"] = LeafHash(2)
    /\ vlog["p"] = <<Nothing, 2>>
    /\ \E r \in results : r.g = "projected" /\ r.args["x"] = 0 /\ r.val = 0

\* ------------------------------------------------------------- claims
Holders(k, mode) == {t \in Threads : lpc[t] = mode /\ lkey[t] = k}

\* C1: in every reachable state of the in-process locker, for every key the
\* write flag is 0 or 1, the read count is >= 0, a set write flag excludes any
\* reader, the maps count exactly the threads holding the key, and no assert
\* of the registry has failed.
C1_LockerExclusion ==
    /\ assertOK
    /\ \A k \in Keys :
        /\ writing[k] \in {0, 1}
        /\ reading[k] >= 0
        /\ ~(writing[k] = 1 /\ reading[k] > 0)
        /\ Cardinality(Holders(k, "writing")) <= 1
        /\ Holders(k, "writing") # {} => Holders(k, "reading") = {}
        /\ reading[k] = Cardinality(Holders(k, "reading"))
        /\ writing[k] = Cardinality(Holders(k, "writing"))

\* C1 witness: two readers share a key while a writer holds another key
C1_Witness ==
    \E k1, k2 \in Keys :
        /\ k1 # k2
        /\ reading[k1] = 2
        /\ writing[k2] = 1

====
